---- MODULE Spec2Model ----
(***************************************************************************)
(* Byte-level BPE tokenizer (bpetok-go): the model tables built by the     *)
(* loader, the pair lookup, the rank-bucketed candidate queue, the         *)
(* production offline merger with its pooled scratch buffers, the decoder  *)
(* and the buffering ("naive") streaming encoder.                          *)
(*                                                                         *)
(* Go slices and arrays are 0-based: they are modelled as functions over   *)
(* 0..n-1.  Byte strings ([]byte) and token sequences ([]int) that are     *)
(* only appended to, sliced and compared are modelled as TLA+ sequences;   *)
(* a nil slice and an empty slice are both the empty sequence (the code    *)
(* and its callers only ever take len() of them and range over them).      *)
(***************************************************************************)
EXTENDS Integers, Sequences, FiniteSets, TLC

(***************************************************************************)
(* Bounds of the exploration.                                              *)
(***************************************************************************)
\* longest input handed to one EncodeOffline call in SpecOffline
MaxInputLen == 3
\* most bytes fed to a streaming encoder between two Flush calls
MaxStreamLen == 4
\* longest chunk handed to one Push
MaxChunkLen == 2
\* longest input of an EncodeOffline call in SpecPool
MaxPoolInputLen == 2
\* longest token list handed to Decode in SpecDecode
MaxDecodeLen == 3
\* SpecQueues: the highest rank and position of a candidate, and the most
\* candidates a queue holds
MaxQueueRank == 2
MaxQueuePos == 1
MaxQueueLen == 3
\* most pairs of a table in SpecLookup
MaxTableSize == 2

(***************************************************************************)
(* The vocabulary under test.  A vocab.json is modelled by the list of the *)
(* decoded byte strings of its keys, entry k being the key of token id     *)
(* k (the ids of a vocab.json that passes the density check are 0..V-1).   *)
(* The byte alphabet is the set of bytes that occur in it; byte values are *)
(* 0 and 1 in place of 0..255.                                             *)
(***************************************************************************)
SampleVocab ==
    << <<0>>, <<1>>, <<0, 0>>, <<1, 0>>, <<0, 1>>, <<0, 1, 1>> >>

RECURSIVE FlattenSeq(_)
FlattenSeq(ss) ==
    IF ss = << >> THEN << >> ELSE Head(ss) \o FlattenSeq(Tail(ss))

Bytes == { FlattenSeq(SampleVocab)[i] : i \in 1..Len(FlattenSeq(SampleVocab)) }

\* all byte strings of length at most n
ByteStrings(n) == UNION { [1..k -> Bytes] : k \in 0..n }

\* s[from .. to) of a Go slice expression s[from:to], s a sequence
Slice(s, from, to) == SubSeq(s, from + 1, to)

Max(S) == CHOOSE x \in S : \A y \in S : y <= x
Min(S) == CHOOSE x \in S : \A y \in S : x <= y

(***************************************************************************)
(* The loader (LoadTokenizerFromFiles and its helpers).  A load either     *)
(* fails, [ok |-> FALSE, err |-> ...], or yields the value it built.       *)
(***************************************************************************)
Fail(msg) == [ok |-> FALSE, err |-> msg]

\* buildRevVocab: revVocab[id] = bytes of token id; an empty or a repeated
\* byte string is an error.
buildRevVocab(vocab) ==
    LET V == Len(vocab) IN
    IF \E k \in 1..V : Len(vocab[k]) = 0
      THEN Fail("empty byte sequence")
    ELSE IF \E k, l \in 1..V : k # l /\ vocab[k] = vocab[l]
      THEN Fail("duplicate byte sequence")
    ELSE [ok |-> TRUE, revVocab |-> [id \in 0..(V - 1) |-> vocab[id + 1]]]

\* buildByteToToken: one pass over the token ids in ascending order, then
\* the check that every byte was filled.
RECURSIVE byteTableScan(_, _, _, _)
byteTableScan(revVocab, V, tokenID, table) ==
    IF tokenID >= V THEN [ok |-> TRUE, table |-> table]
    ELSE LET bs == revVocab[tokenID] IN
         IF Len(bs) = 1
           THEN IF bs[1] \in DOMAIN table
                  THEN Fail("duplicate single byte token")
                  ELSE byteTableScan(revVocab, V, tokenID + 1,
                                     table @@ (bs[1] :> tokenID))
           ELSE byteTableScan(revVocab, V, tokenID + 1, table)

\* buildByteToToken without the final check that every byte got a token
buildByteToTokenUnchecked(revVocab) ==
    LET V == Cardinality(DOMAIN revVocab)
        r == byteTableScan(revVocab, V, 0, << >>)
    IN  IF ~r.ok THEN r
        ELSE [ok |-> TRUE, byteToToken |-> r.table]

buildByteToToken(revVocab) ==
    LET V == Cardinality(DOMAIN revVocab)
        r == byteTableScan(revVocab, V, 0, << >>)
    IN  IF ~r.ok THEN r
        ELSE IF \E b \in Bytes : b \notin DOMAIN r.table
          THEN Fail("no token found for raw byte")
        ELSE [ok |-> TRUE, byteToToken |-> r.table]

\* vocabMap[str]: the id of a token string, or -1 when the string is no key
vocabID(vocab, str) ==
    IF \E k \in 1..Len(vocab) : vocab[k] = str
      THEN (CHOOSE k \in 1..Len(vocab) : vocab[k] = str) - 1
      ELSE -1

\* the character '#', which no byte of the sample vocabulary is
Hash == 35

\* line 303: line == "" || strings.HasPrefix(line, "#"), on the trimmed line,
\* which starts with its first field
skippedLine(parts) ==
    Len(parts) = 0 \/ (Len(parts[1]) > 0 /\ parts[1][1] = Hash)

\* the scan of buildPairRank giving a rank to every line, a comment included
RECURSIVE pairRankScanRanksComments(_, _, _, _, _)
pairRankScanRanksComments(lines, vocab, k, rank, pairRank) ==
    IF k > Len(lines) THEN [ok |-> TRUE, pairRank |-> pairRank]
    ELSE LET parts == lines[k] IN
         IF skippedLine(parts)
           THEN pairRankScanRanksComments(lines, vocab, k + 1, rank + 1, pairRank)
         ELSE IF Len(parts) # 2 THEN Fail("invalid merge line")
         ELSE LET leftID  == vocabID(vocab, parts[1])
                  rightID == vocabID(vocab, parts[2])
                  key     == <<leftID, rightID>>
              IN  IF leftID = -1 \/ rightID = -1
                    THEN Fail("no vocab entry for a merges token")
                  ELSE IF key \in DOMAIN pairRank
                    THEN Fail("duplicate merge pair")
                  ELSE pairRankScanRanksComments(lines, vocab, k + 1, rank + 1,
                                    pairRank @@ (key :> rank))

\* buildPairRank: a merges line is the list of its fields; a line without
\* fields and a line that starts with '#' are skipped, every other line
\* takes the next rank.
RECURSIVE pairRankScan(_, _, _, _, _)
pairRankScan(lines, vocab, k, rank, pairRank) ==
    IF k > Len(lines) THEN [ok |-> TRUE, pairRank |-> pairRank]
    ELSE LET parts == lines[k] IN
         IF skippedLine(parts)
           THEN pairRankScan(lines, vocab, k + 1, rank, pairRank)
         ELSE IF Len(parts) # 2 THEN Fail("invalid merge line")
         ELSE LET leftID  == vocabID(vocab, parts[1])
                  rightID == vocabID(vocab, parts[2])
                  key     == <<leftID, rightID>>
              IN  IF leftID = -1 \/ rightID = -1
                    THEN Fail("no vocab entry for a merges token")
                  ELSE IF key \in DOMAIN pairRank
                    THEN Fail("duplicate merge pair")
                  ELSE pairRankScan(lines, vocab, k + 1, rank + 1,
                                    pairRank @@ (key :> rank))

buildPairRank(mergesLines, vocab) ==
    pairRankScan(mergesLines, vocab, 1, 0, << >>)

\* buildPairToken: the merged id of every ranked pair is the id of the
\* concatenated byte string, which must be in the vocabulary.
bytesToID(revVocab, bs) ==
    IF \E id \in DOMAIN revVocab : revVocab[id] = bs
      THEN CHOOSE id \in DOMAIN revVocab : revVocab[id] = bs
      ELSE -1

buildPairToken(revVocab, pairRank) ==
    IF \E pair \in DOMAIN pairRank :
          bytesToID(revVocab, revVocab[pair[1]] \o revVocab[pair[2]]) = -1
      THEN Fail("merged bytes are no token")
      ELSE [ok |-> TRUE,
            pairToken |-> [pair \in DOMAIN pairRank |->
                bytesToID(revVocab, revVocab[pair[1]] \o revVocab[pair[2]])]]

(***************************************************************************)
(* PairLookup.  A packed 64-bit word is modelled by its two 32-bit halves  *)
(* <<high, low>>; the all-ones sentinel ^uint64(0) is the word whose two   *)
(* halves are all ones, written -1 each.  The dense tier fastLookup, an    *)
(* F x F array that NewPairLookup fills with the sentinel before it writes *)
(* the pairs, is modelled by the cells written: every other cell of the    *)
(* array holds the sentinel (fastCell).                                    *)
(***************************************************************************)
fastLookupLimit == 2048

Sentinel == <<-1, -1>>

\* packPair(a, b) = a << 32 | b
packPair(a, b) == <<a, b>>

\* NewPairLookup without the else branch that fills the fallback map
NewPairLookupNoFallback(pairInfo, vocabSize) ==
    LET F == IF vocabSize < fastLookupLimit THEN vocabSize ELSE fastLookupLimit
    IN  [fastLookupSize |-> F,
         fastLookup |-> [key \in { k \in DOMAIN pairInfo : k[1] < F /\ k[2] < F }
                            |-> pairInfo[key]],
         fallback |-> << >>]

NewPairLookup(pairInfo, vocabSize) ==
    LET F == IF vocabSize < fastLookupLimit THEN vocabSize ELSE fastLookupLimit
    IN  [fastLookupSize |-> F,
         fastLookup |-> [key \in { k \in DOMAIN pairInfo : k[1] < F /\ k[2] < F }
                            |-> pairInfo[key]],
         fallback |-> [key \in { k \in DOMAIN pairInfo : ~(k[1] < F /\ k[2] < F) }
                          |-> pairInfo[key]]]

\* pl.fastLookup[a][b], for 0 <= a, b < pl.fastLookupSize
fastCell(pl, a, b) ==
    IF <<a, b>> \in DOMAIN pl.fastLookup THEN pl.fastLookup[<<a, b>>] ELSE Sentinel

Lookup(pl, a, b) ==
    IF a >= 0 /\ a < pl.fastLookupSize /\ b >= 0 /\ b < pl.fastLookupSize
      THEN LET value == fastCell(pl, a, b) IN
           IF value # Sentinel THEN [value |-> value, ok |-> TRUE]
                               ELSE [value |-> <<0, 0>>, ok |-> FALSE]
      ELSE LET key == packPair(a, b) IN
           IF key \in DOMAIN pl.fallback
             THEN [value |-> pl.fallback[key], ok |-> TRUE]
             ELSE [value |-> <<0, 0>>, ok |-> FALSE]

(***************************************************************************)
(* The core Tokenizer: the tables of the loader plus the fields the core   *)
(* package adds (pairLookup, maxRank, MaxTokenByteLen).                    *)
(***************************************************************************)
\* pairInfo[a << 32 | b] = rank << 32 | merged id
buildPairInfo(pairRank, pairToken) ==
    [key \in DOMAIN pairRank |-> <<pairRank[key], pairToken[key]>>]

maxRankOf(pairRank) ==
    IF DOMAIN pairRank = {} THEN 0
    ELSE Max({ pairRank[key] : key \in DOMAIN pairRank })

maxTokenByteLenOf(revVocab) ==
    IF DOMAIN revVocab = {} THEN 0
    ELSE Max({ Len(revVocab[id]) : id \in DOMAIN revVocab })

LoadTokenizerFromFiles(vocab, mergesLines) ==
    LET rv == buildRevVocab(vocab) IN
    IF ~rv.ok THEN rv ELSE
    LET bt == buildByteToToken(rv.revVocab) IN
    IF ~bt.ok THEN bt ELSE
    LET pr == buildPairRank(mergesLines, vocab) IN
    IF ~pr.ok THEN pr ELSE
    LET pt == buildPairToken(rv.revVocab, pr.pairRank) IN
    IF ~pt.ok THEN pt ELSE
    [ok              |-> TRUE,
     revVocab        |-> rv.revVocab,
     byteToToken     |-> bt.byteToToken,
     pairRank        |-> pr.pairRank,
     pairToken       |-> pt.pairToken,
     pairLookup      |-> NewPairLookup(buildPairInfo(pr.pairRank, pt.pairToken),
                                       Len(vocab)),
     maxRank         |-> maxRankOf(pr.pairRank),
     MaxTokenByteLen |-> maxTokenByteLenOf(rv.revVocab)]

TokenLen(t, id) == Len(t.revVocab[id])

(***************************************************************************)
(* BucketQueue (utils): one bucket per rank, kept sorted by Pos, and a     *)
(* cursor `current` that Pop only ever moves forward.  buckets[r] of the   *)
(* code is buckets[r + 1] here.                                            *)
(***************************************************************************)
smallBucketLen == 16

MergeCand(rank, pos, a, b, verL, verR) ==
    [Rank |-> rank, Pos |-> pos, LeftToken |-> a, RightToken |-> b,
     VerL |-> verL, VerR |-> verR]

NoCand == MergeCand(0, 0, 0, 0, 0, 0)

NewBucketQueue(maxRank) ==
    [buckets |-> [r \in 1..(maxRank + 1) |-> << >>], current |-> 0, totalCount |-> 0]

BucketQueueLen(bq) == bq.totalCount

\* the linear scan of Push breaking at its first entry whatever its Pos: the
\* candidate goes to the front of a bucket that is not empty
insertPosLinearFront(bucket, pos, i) == 0

\* the linear scan of Push: the first index whose Pos is >= pos
RECURSIVE insertPosLinear(_, _, _)
insertPosLinear(bucket, pos, i) ==
    IF i >= Len(bucket) THEN Len(bucket)
    ELSE IF bucket[i + 1].Pos >= pos THEN i
    ELSE insertPosLinear(bucket, pos, i + 1)

\* the binary search of Push
RECURSIVE insertPosBinary(_, _, _, _)
insertPosBinary(bucket, pos, left, right) ==
    IF left < right
      THEN LET mid == (left + right) \div 2 IN
           IF bucket[mid + 1].Pos < pos
             THEN insertPosBinary(bucket, pos, mid + 1, right)
             ELSE insertPosBinary(bucket, pos, left, mid)
      ELSE left

BucketQueuePush(bq, c) ==
    LET rank == c.Rank
        grown == IF rank >= Len(bq.buckets)
                   THEN [r \in 1..(rank + 1) |->
                            IF r <= Len(bq.buckets) THEN bq.buckets[r] ELSE << >>]
                   ELSE bq.buckets
        bucket == grown[rank + 1]
        bucketLen == Len(bucket)
        insertPos == IF bucketLen < smallBucketLen
                       THEN insertPosLinear(bucket, c.Pos, 0)
                       ELSE insertPosBinary(bucket, c.Pos, 0, bucketLen)
        inserted == SubSeq(bucket, 1, insertPos) \o <<c>>
                        \o SubSeq(bucket, insertPos + 1, bucketLen)
    IN  [buckets    |-> [grown EXCEPT ![rank + 1] = inserted],
         current    |-> bq.current,
         totalCount |-> bq.totalCount + 1]

\* the scan of Pop starting one bucket too far: the bucket under the cursor
\* is passed over
RECURSIVE skipPastCurrent(_, _)
skipPastCurrent(buckets, current) ==
    IF current + 1 < Len(buckets) /\ Len(buckets[current + 2]) = 0
      THEN skipPastCurrent(buckets, current + 1)
      ELSE current + 1

RECURSIVE skipEmptyBuckets(_, _)
skipEmptyBuckets(buckets, current) ==
    IF current < Len(buckets) /\ Len(buckets[current + 1]) = 0
      THEN skipEmptyBuckets(buckets, current + 1)
      ELSE current

\* Pop: [q |-> the queue afterwards, c |-> the candidate, ok |-> found]
BucketQueuePop(bq) ==
    LET cur == skipEmptyBuckets(bq.buckets, bq.current) IN
    IF cur >= Len(bq.buckets)
      THEN [q |-> [bq EXCEPT !.current = cur], c |-> NoCand, ok |-> FALSE]
      ELSE [q |-> [buckets    |-> [bq.buckets EXCEPT ![cur + 1] = Tail(@)],
                   current    |-> cur,
                   totalCount |-> bq.totalCount - 1],
            c |-> Head(bq.buckets[cur + 1]),
            ok |-> TRUE]

(***************************************************************************)
(* The binary min-heap, utils.MergeHeap, ordered by (Rank, Pos).  items is *)
(* the Go slice h.items, index i of the slice being items[i + 1].          *)
(***************************************************************************)
defaultHeapPrealloc == 8192
smallHeapCap == 64

NewMergeHeap(shouldPreAlloc) ==
    [items           |-> << >>,
     preAllocated    |-> shouldPreAlloc,
     initialCapacity |-> IF shouldPreAlloc THEN defaultHeapPrealloc ELSE smallHeapCap]

MergeHeapLen(h) == Len(h.items)

\* a comparison that orders candidates by Rank alone
lessRankOnly(a, b) == a.Rank < b.Rank

less(a, b) ==
    IF a.Rank # b.Rank THEN a.Rank < b.Rank ELSE a.Pos < b.Pos

swapItems(items, i, j) ==
    [items EXCEPT ![i + 1] = items[j + 1], ![j + 1] = items[i + 1]]

\* Go's (i - 1) / 2 truncates toward zero: 0 for i = 0
parentOf(i) == IF i = 0 THEN 0 ELSE (i - 1) \div 2

RECURSIVE up(_, _)
up(items, i) ==
    LET parent == parentOf(i) IN
    IF parent = i \/ ~less(items[i + 1], items[parent + 1]) THEN items
    ELSE up(swapItems(items, parent, i), parent)

RECURSIVE down(_, _)
down(items, i) ==
    LET n     == Len(items)
        left  == 2 * i + 1
        right == 2 * i + 2
        s1    == IF left < n /\ less(items[left + 1], items[i + 1]) THEN left ELSE i
        smallest == IF right < n /\ less(items[right + 1], items[s1 + 1])
                      THEN right ELSE s1
    IN  IF smallest = i THEN items
        ELSE down(swapItems(items, i, smallest), smallest)

MergeHeapPush(h, c) ==
    [h EXCEPT !.items = up(Append(h.items, c), Len(h.items))]

MergeHeapPop(h) ==
    IF Len(h.items) = 0 THEN [q |-> h, c |-> NoCand, ok |-> FALSE]
    ELSE LET n       == Len(h.items) - 1
             swapped == swapItems(h.items, 0, n)
             rest    == SubSeq(swapped, 1, n)
         IN  [q  |-> [h EXCEPT !.items = IF Len(rest) > 0 THEN down(rest, 0) ELSE rest],
              c  |-> swapped[n + 1],
              ok |-> TRUE]

MergeHeapReset(h) == [h EXCEPT !.items = << >>]

(***************************************************************************)
(* The pooled scratch of the core EncodeOffline.  Each of the four slices  *)
(* is modelled by its backing array, a function over 0..cap-1; the zero    *)
(* encodeScratch (what acquireScratch builds when the pool hands out nil)  *)
(* has empty arrays.                                                       *)
(***************************************************************************)
EmptyScratch == [tokens |-> << >>, prev |-> << >>, next |-> << >>, live |-> << >>]

capOf(buf) == Cardinality(DOMAIN buf)

ensureIntCapacity(buf, n) ==
    IF capOf(buf) < n THEN [i \in 0..(n - 1) |-> 0] ELSE buf

prepare(sc, n) ==
    [tokens |-> ensureIntCapacity(sc.tokens, n),
     prev   |-> ensureIntCapacity(sc.prev, n),
     next   |-> ensureIntCapacity(sc.next, n),
     live   |-> ensureIntCapacity(sc.live, n)]

\* pooled: what scratchPool.Get returned (EmptyScratch for nil)
acquireScratch(pooled, n) == prepare(pooled, n)

(***************************************************************************)
(* The production offline merger, core.EncodeOffline.  Its working state   *)
(* is [n, tokens, prev, next, live, h]: the input length, the four scratch *)
(* arrays (indices 0..n-1 are the arena of this call) and the queue.       *)
(***************************************************************************)
\* initArena terminating the list at the last slot of the scratch buffer
\* (next[len(next)-1] = -1) instead of the last slot of the input
initArenaEndsAtCap(t, input, sc) ==
    LET n == Len(input) IN
    [n      |-> n,
     tokens |-> [i \in DOMAIN sc.tokens |->
                    IF i < n THEN t.byteToToken[input[i + 1]] ELSE sc.tokens[i]],
     prev   |-> [i \in DOMAIN sc.prev |->
                    IF i < n THEN (IF i = 0 THEN -1 ELSE i - 1) ELSE sc.prev[i]],
     next   |-> [i \in DOMAIN sc.next |->
                    IF i = capOf(sc.next) - 1 THEN -1
                    ELSE IF i < n THEN i + 1 ELSE sc.next[i]],
     live   |-> [i \in DOMAIN sc.live |-> IF i < n THEN 0 ELSE sc.live[i]],
     h      |-> NewBucketQueue(t.maxRank)]

\* lines 19-40: base tokens, the doubly linked list, the versions
initArena(t, input, sc) ==
    LET n == Len(input) IN
    [n      |-> n,
     tokens |-> [i \in DOMAIN sc.tokens |->
                    IF i < n THEN t.byteToToken[input[i + 1]] ELSE sc.tokens[i]],
     prev   |-> [i \in DOMAIN sc.prev |->
                    IF i < n THEN (IF i = 0 THEN -1 ELSE i - 1) ELSE sc.prev[i]],
     next   |-> [i \in DOMAIN sc.next |->
                    IF i < n THEN (IF i = n - 1 THEN -1 ELSE i + 1) ELSE sc.next[i]],
     live   |-> [i \in DOMAIN sc.live |-> IF i < n THEN 0 ELSE sc.live[i]],
     h      |-> NewBucketQueue(t.maxRank)]

\* lines 44-65
pushIfMergeable(t, st, i) ==
    IF i = -1 \/ st.next[i] = -1 THEN st
    ELSE LET j == st.next[i]
             a == st.tokens[i]
             b == st.tokens[j]
             info == Lookup(t.pairLookup, a, b)
         IN  IF info.ok
               THEN [st EXCEPT !.h = BucketQueuePush(@,
                        MergeCand(info.value[1], i, a, b, st.live[i], st.live[j]))]
               ELSE st

\* the seeding loop without the push for slot 0
RECURSIVE seedFromSkipsFirst(_, _, _)
seedFromSkipsFirst(t, st, i) ==
    IF i # -1 /\ st.next[i] # -1
      THEN seedFromSkipsFirst(t, IF i = 0 THEN st ELSE pushIfMergeable(t, st, i),
                              st.next[i])
      ELSE st

\* lines 67-69: for i := 0; i != -1 && next[i] != -1; i = next[i]
RECURSIVE seedFrom(_, _, _)
seedFrom(t, st, i) ==
    IF i # -1 /\ st.next[i] # -1
      THEN seedFrom(t, pushIfMergeable(t, st, i), st.next[i])
      ELSE st

\* applyMerge without pushIfMergeable(pi): the pair of the left neighbour
\* and the merged token gets no candidate
applyMergeNoLeftPush(t, st, i, j, cID) ==
    LET nj == st.next[j]
        s1 == [st EXCEPT !.tokens[i] = cID,
                         !.next = [[@ EXCEPT ![i] = nj] EXCEPT ![j] = -1],
                         !.prev = [(IF nj # -1 THEN [@ EXCEPT ![nj] = i] ELSE @)
                                      EXCEPT ![j] = -1],
                         !.live = [[@ EXCEPT ![i] = @ + 1] EXCEPT ![j] = @ + 1]]
    IN  pushIfMergeable(t, s1, i)

\* applyMerge without liveVersion[i]++ and liveVersion[j]++
applyMergeNoBump(t, st, i, j, cID) ==
    LET nj == st.next[j]
        s1 == [st EXCEPT !.tokens[i] = cID,
                         !.next = [[@ EXCEPT ![i] = nj] EXCEPT ![j] = -1],
                         !.prev = [(IF nj # -1 THEN [@ EXCEPT ![nj] = i] ELSE @)
                                      EXCEPT ![j] = -1]]
        pi == s1.prev[i]
        s2 == IF pi # -1 THEN pushIfMergeable(t, s1, pi) ELSE s1
    IN  pushIfMergeable(t, s2, i)

\* applyMerge without prev[nj] = i: the right neighbour keeps pointing back
\* at the absorbed slot
applyMergeNoBackLink(t, st, i, j, cID) ==
    LET nj == st.next[j]
        s1 == [st EXCEPT !.tokens[i] = cID,
                         !.next = [[@ EXCEPT ![i] = nj] EXCEPT ![j] = -1],
                         !.prev = [@ EXCEPT ![j] = -1],
                         !.live = [[@ EXCEPT ![i] = @ + 1] EXCEPT ![j] = @ + 1]]
        pi == s1.prev[i]
        s2 == IF pi # -1 THEN pushIfMergeable(t, s1, pi) ELSE s1
    IN  pushIfMergeable(t, s2, i)

\* applyMerge without tokens[i] = cID: slot i keeps the left token
applyMergeKeepsToken(t, st, i, j, cID) ==
    LET nj == st.next[j]
        s1 == [st EXCEPT !.next = [[@ EXCEPT ![i] = nj] EXCEPT ![j] = -1],
                         !.prev = [(IF nj # -1 THEN [@ EXCEPT ![nj] = i] ELSE @)
                                      EXCEPT ![j] = -1],
                         !.live = [[@ EXCEPT ![i] = @ + 1] EXCEPT ![j] = @ + 1]]
        pi == s1.prev[i]
        s2 == IF pi # -1 THEN pushIfMergeable(t, s1, pi) ELSE s1
    IN  pushIfMergeable(t, s2, i)

\* applyMerge without next[i] = nj: slot i keeps pointing at the dead slot j
applyMergeNoUnlink(t, st, i, j, cID) ==
    LET nj == st.next[j]
        s1 == [st EXCEPT !.tokens[i] = cID,
                         !.next = [@ EXCEPT ![j] = -1],
                         !.prev = [(IF nj # -1 THEN [@ EXCEPT ![nj] = i] ELSE @)
                                      EXCEPT ![j] = -1],
                         !.live = [[@ EXCEPT ![i] = @ + 1] EXCEPT ![j] = @ + 1]]
        pi == s1.prev[i]
        s2 == IF pi # -1 THEN pushIfMergeable(t, s1, pi) ELSE s1
    IN  pushIfMergeable(t, s2, i)

\* applyMerge without prev[j], next[j] = -1, -1: the absorbed slot keeps its
\* links into the list
applyMergeKeepsLinks(t, st, i, j, cID) ==
    LET nj == st.next[j]
        s1 == [st EXCEPT !.tokens[i] = cID,
                         !.next = [@ EXCEPT ![i] = nj],
                         !.prev = IF nj # -1 THEN [@ EXCEPT ![nj] = i] ELSE @,
                         !.live = [[@ EXCEPT ![i] = @ + 1] EXCEPT ![j] = @ + 1]]
        pi == s1.prev[i]
        s2 == IF pi # -1 THEN pushIfMergeable(t, s1, pi) ELSE s1
    IN  pushIfMergeable(t, s2, i)

\* lines 108-125: the merge of slot j = next[i] into slot i and the re-push
applyMerge(t, st, i, j, cID) ==
    LET nj == st.next[j]
        s1 == [st EXCEPT !.tokens[i] = cID,
                         !.next = [[@ EXCEPT ![i] = nj] EXCEPT ![j] = -1],
                         !.prev = [(IF nj # -1 THEN [@ EXCEPT ![nj] = i] ELSE @)
                                      EXCEPT ![j] = -1],
                         !.live = [[@ EXCEPT ![i] = @ + 1] EXCEPT ![j] = @ + 1]]
        pi == s1.prev[i]
        s2 == IF pi # -1 THEN pushIfMergeable(t, s1, pi) ELSE s1
    IN  pushIfMergeable(t, s2, i)

\* lines 79-125: the body of the loop for a popped candidate c
handleCand(t, st, c) ==
    LET i == c.Pos IN
    IF i = -1 THEN st
    ELSE LET j == st.next[i] IN
         IF j = -1 THEN st
         ELSE IF st.live[i] # c.VerL \/ st.live[j] # c.VerR THEN st
         ELSE LET a == st.tokens[i]
                  b == st.tokens[j]
                  info == Lookup(t.pairLookup, a, b)
              IN  IF ~info.ok THEN st
                  ELSE LET rankNow == info.value[1]
                           cID     == info.value[2]
                       IN  IF rankNow # c.Rank \/ a # c.LeftToken \/ b # c.RightToken
                             THEN st
                             ELSE applyMerge(t, st, i, j, cID)

\* lines 74-126: pop until the queue reports empty
RECURSIVE mergeLoop(_, _)
mergeLoop(t, st) ==
    LET p == BucketQueuePop(st.h) IN
    IF ~p.ok THEN [st EXCEPT !.h = p.q]
    ELSE mergeLoop(t, handleCand(t, [st EXCEPT !.h = p.q], p.c))

\* lines 128-131: for i := head; i != -1; i = next[i]
RECURSIVE outputWalk(_, _)
outputWalk(st, i) ==
    IF i = -1 THEN << >> ELSE <<st.tokens[i]>> \o outputWalk(st, st.next[i])

\* the scratch as the call leaves it, which the deferred releaseScratch
\* puts back into the pool
releaseScratch(st) ==
    [tokens |-> st.tokens, prev |-> st.prev, next |-> st.next, live |-> st.live]

\* a panic of the Go runtime, as a value no token list and no byte string is
Panic == <<-1>>

\* encodeOfflineCall without the n == 0 return: prev[0] = -1 on an empty
\* slice is an index out of range
encodeOfflineCallNoEmptyGuard(t, input, pooled) ==
    IF Len(input) = 0
      THEN [out |-> Panic, released |-> <<acquireScratch(pooled, 0)>>]
    ELSE LET sc == acquireScratch(pooled, Len(input))
             st == mergeLoop(t, seedFrom(t, initArena(t, input, sc), 0))
         IN  [out |-> outputWalk(st, 0), released |-> <<releaseScratch(st)>>]

\* the whole call, given what scratchPool.Get hands out when it is asked:
\* [out |-> the tokens returned, released |-> the scratches put back into
\* the pool (none for the empty input, which returns before acquiring)]
encodeOfflineCall(t, input, pooled) ==
    IF Len(input) = 0 THEN [out |-> << >>, released |-> << >>]
    ELSE LET sc == acquireScratch(pooled, Len(input))
             st == mergeLoop(t, seedFrom(t, initArena(t, input, sc), 0))
         IN  [out |-> outputWalk(st, 0), released |-> <<releaseScratch(st)>>]

EncodeOffline(t, input, pooled) == encodeOfflineCall(t, input, pooled).out

\* the pool after a call that put back `released`
poolAfter(held, released) ==
    IF released = << >> THEN held ELSE released[Len(released)]

(***************************************************************************)
(* The heap variant of EncodeOffline (internal/tokenizer/encoder.go): the  *)
(* same arena in freshly made slices of length n, the pairRank and         *)
(* pairToken maps instead of the PairLookup, and a min-heap of candidates  *)
(* ordered by (Rank, Pos) that is popped while its length is positive.     *)
(***************************************************************************)
\* lines 16-39: base tokens, the doubly linked list, the versions, the heap
heapInitArena(t, input) ==
    LET n == Len(input) IN
    [n      |-> n,
     tokens |-> [i \in 0..(n - 1) |-> t.byteToToken[input[i + 1]]],
     prev   |-> [i \in 0..(n - 1) |-> IF i = 0 THEN -1 ELSE i - 1],
     next   |-> [i \in 0..(n - 1) |-> IF i = n - 1 THEN -1 ELSE i + 1],
     live   |-> [i \in 0..(n - 1) |-> 0],
     h      |-> [items |-> << >>, preAllocated |-> FALSE, initialCapacity |-> 0]]

\* lines 42-62; its callers never pass i = -1
heapPushIfMergeable(t, st, i) ==
    LET j == st.next[i] IN
    IF i = -1 \/ j = -1 THEN st
    ELSE LET a == st.tokens[i]
             b == st.tokens[j]
         IN  IF <<a, b>> \in DOMAIN t.pairRank
               THEN [st EXCEPT !.h = MergeHeapPush(@,
                        MergeCand(t.pairRank[<<a, b>>], i, a, b, st.live[i], st.live[j]))]
               ELSE st

\* the seeding loop leaving out slot 0
RECURSIVE heapSeedFromSkipsFirst(_, _, _)
heapSeedFromSkipsFirst(t, st, i) ==
    IF i # -1 /\ st.next[i] # -1
      THEN heapSeedFromSkipsFirst(t, IF i = 0 THEN st ELSE heapPushIfMergeable(t, st, i),
                                  st.next[i])
      ELSE st

\* lines 65-67
RECURSIVE heapSeedFrom(_, _, _)
heapSeedFrom(t, st, i) ==
    IF i # -1 /\ st.next[i] # -1
      THEN heapSeedFrom(t, heapPushIfMergeable(t, st, i), st.next[i])
      ELSE st

\* the merge without the final pushIfMergeable(i): the pair of the merged
\* token and its right neighbour gets no candidate
heapApplyMergeNoRepush(t, st, i, j, cID) ==
    LET nj == st.next[j]
        s1 == [st EXCEPT !.tokens[i] = cID,
                         !.next = [[@ EXCEPT ![i] = nj] EXCEPT ![j] = -1],
                         !.prev = [(IF nj # -1 THEN [@ EXCEPT ![nj] = i] ELSE @)
                                      EXCEPT ![j] = -1],
                         !.live = [[@ EXCEPT ![i] = @ + 1] EXCEPT ![j] = @ + 1]]
        pi == s1.prev[i]
    IN  IF pi # -1 THEN heapPushIfMergeable(t, s1, pi) ELSE s1

\* lines 100-121: the merge of slot j = next[i] into slot i and the re-push
heapApplyMerge(t, st, i, j, cID) ==
    LET nj == st.next[j]
        s1 == [st EXCEPT !.tokens[i] = cID,
                         !.next = [[@ EXCEPT ![i] = nj] EXCEPT ![j] = -1],
                         !.prev = [(IF nj # -1 THEN [@ EXCEPT ![nj] = i] ELSE @)
                                      EXCEPT ![j] = -1],
                         !.live = [[@ EXCEPT ![i] = @ + 1] EXCEPT ![j] = @ + 1]]
        pi == s1.prev[i]
        s2 == IF pi # -1 THEN heapPushIfMergeable(t, s1, pi) ELSE s1
    IN  heapPushIfMergeable(t, s2, i)

\* lines 74-121: the body of the loop for a popped candidate c
heapHandleCand(t, st, c) ==
    LET i == c.Pos IN
    IF i = -1 THEN st
    ELSE LET j == st.next[i] IN
         IF j = -1 THEN st
         ELSE IF st.live[i] # c.VerL \/ st.live[j] # c.VerR THEN st
         ELSE LET a == st.tokens[i]
                  b == st.tokens[j]
                  ok == <<a, b>> \in DOMAIN t.pairRank
              IN  IF ~ok \/ t.pairRank[<<a, b>>] # c.Rank
                         \/ a # c.LeftToken \/ b # c.RightToken
                    THEN st
                    ELSE heapApplyMerge(t, st, i, j, t.pairToken[<<a, b>>])

\* lines 73-122: for h.Len() > 0
RECURSIVE heapMergeLoop(_, _)
heapMergeLoop(t, st) ==
    IF MergeHeapLen(st.h) = 0 THEN st
    ELSE LET p == MergeHeapPop(st.h) IN
         heapMergeLoop(t, heapHandleCand(t, [st EXCEPT !.h = p.q], p.c))

\* the whole call of the heap variant
EncodeOfflineHeap(t, input) ==
    IF Len(input) = 0 THEN << >>
    ELSE outputWalk(heapMergeLoop(t, heapSeedFrom(t, heapInitArena(t, input), 0)), 0)

(***************************************************************************)
(* The decoder: Panic for an id out of range, else the concatenation.      *)
(***************************************************************************)
RECURSIVE concatTokens(_, _)
concatTokens(t, tokens) ==
    IF tokens = << >> THEN << >>
    ELSE t.revVocab[Head(tokens)] \o concatTokens(t, Tail(tokens))

\* lines 10-12: id < 0 || id >= len(t.revVocab)
idOutOfRange(t, id) == id < 0 \/ id >= Cardinality(DOMAIN t.revVocab)

\* the appends of a single loop that checks each id right before it appends
\* its bytes: [panicked, written], written being out when the loop stops
RECURSIVE appendChecked(_, _, _)
appendChecked(t, tokens, out) ==
    IF tokens = << >> THEN [panicked |-> FALSE, written |-> out]
    ELSE IF idOutOfRange(t, Head(tokens)) THEN [panicked |-> TRUE, written |-> out]
    ELSE appendChecked(t, Tail(tokens), out \o t.revVocab[Head(tokens)])

\* Decode validating and appending in one loop
decodeRunSinglePass(t, tokens) == appendChecked(t, tokens, << >>)

\* one run of Decode: [panicked |-> whether it panicked, written |-> the
\* bytes appended to out when it returned or panicked].  The first loop
\* (lines 9-16) validates every id, the second (lines 19-21) appends.
decodeRun(t, tokens) ==
    IF Len(tokens) = 0 THEN [panicked |-> FALSE, written |-> << >>]
    ELSE IF \E k \in 1..Len(tokens) : idOutOfRange(t, tokens[k])
      THEN [panicked |-> TRUE, written |-> << >>]
    ELSE [panicked |-> FALSE, written |-> concatTokens(t, tokens)]

Decode(t, tokens) ==
    LET r == decodeRun(t, tokens) IN
    IF r.panicked THEN Panic ELSE r.written

(***************************************************************************)
(* The buffering streaming encoder, NaiveStreamingEncoderState.  Its       *)
(* EncodeOffline calls go through the scratch pool of the shared           *)
(* Tokenizer, so every operation takes the scratch the pool hands out and  *)
(* yields the scratches it puts back: [st, released, ret].                 *)
(***************************************************************************)
\* the constructor reserving MaxTokenByteLen bytes instead of one less
NewNaiveStreamingEncoderStateWideReserve(t) ==
    [tailReserve |-> IF t.MaxTokenByteLen > 0 THEN t.MaxTokenByteLen ELSE 0,
     buf         |-> << >>,
     outBuf      |-> << >>]

NewNaiveStreamingEncoderState(t) ==
    [tailReserve |-> IF t.MaxTokenByteLen > 0 THEN t.MaxTokenByteLen - 1 ELSE 0,
     buf         |-> << >>,
     outBuf      |-> << >>]

\* the emit loop going on to the next token (continue) instead of stopping
\* (break) at a token that does not fit
RECURSIVE committedPrefixContinues(_, _, _, _)
committedPrefixContinues(t, tokens, consumed, emitLimit) ==
    IF tokens = << >> THEN << >>
    ELSE LET tokLen == TokenLen(t, Head(tokens)) IN
         IF consumed + tokLen > emitLimit
           THEN committedPrefixContinues(t, Tail(tokens), consumed, emitLimit)
         ELSE <<Head(tokens)>>
                \o committedPrefixContinues(t, Tail(tokens), consumed + tokLen, emitLimit)

\* the emit loop stopping at a token that ends exactly at emitLimit
\* (>= in place of >)
RECURSIVE committedPrefixStopsAtLimit(_, _, _, _)
committedPrefixStopsAtLimit(t, tokens, consumed, emitLimit) ==
    IF tokens = << >> THEN << >>
    ELSE LET tokLen == TokenLen(t, Head(tokens)) IN
         IF consumed + tokLen >= emitLimit THEN << >>
         ELSE <<Head(tokens)>>
                \o committedPrefixStopsAtLimit(t, Tail(tokens), consumed + tokLen, emitLimit)

\* lines 222-230: the prefix of tokens whose byte length stays within emitLimit
RECURSIVE committedPrefix(_, _, _, _)
committedPrefix(t, tokens, consumed, emitLimit) ==
    IF tokens = << >> THEN << >>
    ELSE LET tokLen == TokenLen(t, Head(tokens)) IN
         IF consumed + tokLen > emitLimit THEN << >>
         ELSE <<Head(tokens)>>
                \o committedPrefix(t, Tail(tokens), consumed + tokLen, emitLimit)

RECURSIVE byteLenOf(_, _)
byteLenOf(t, tokens) ==
    IF tokens = << >> THEN 0
    ELSE TokenLen(t, Head(tokens)) + byteLenOf(t, Tail(tokens))

\* emitCommitted dropping emitLimit bytes from the buffer instead of the
\* bytes of the tokens it emitted
emitCommittedDropsLimit(t, st, pooled) ==
    LET emitLimit == Len(st.buf) - st.tailReserve IN
    IF emitLimit <= 0 THEN [st |-> st, released |-> << >>]
    ELSE LET call     == encodeOfflineCall(t, st.buf, pooled)
             emitted  == committedPrefix(t, call.out, 0, emitLimit)
         IN  [st   |-> [st EXCEPT !.outBuf = @ \o emitted,
                                  !.buf = Slice(@, emitLimit, Len(@))],
              released |-> call.released]

\* emitCommitted leaving the bytes of the tokens it emitted in the buffer
emitCommittedKeepsEmitted(t, st, pooled) ==
    LET emitLimit == Len(st.buf) - st.tailReserve IN
    IF emitLimit <= 0 THEN [st |-> st, released |-> << >>]
    ELSE LET call     == encodeOfflineCall(t, st.buf, pooled)
             emitted  == committedPrefix(t, call.out, 0, emitLimit)
         IN  [st   |-> [st EXCEPT !.outBuf = @ \o emitted],
              released |-> call.released]

emitCommitted(t, st, pooled) ==
    LET emitLimit == Len(st.buf) - st.tailReserve IN
    IF emitLimit <= 0 THEN [st |-> st, released |-> << >>]
    ELSE LET call     == encodeOfflineCall(t, st.buf, pooled)
             emitted  == committedPrefix(t, call.out, 0, emitLimit)
             consumed == byteLenOf(t, emitted)
         IN  [st   |-> [st EXCEPT !.outBuf = @ \o emitted,
                                  !.buf = IF consumed > 0
                                            THEN Slice(@, consumed, Len(@)) ELSE @],
              released |-> call.released]

Push(t, st, pooled, chunk) ==
    LET s1 == [st EXCEPT !.outBuf = << >>,
                         !.buf = IF Len(chunk) > 0 THEN @ \o chunk ELSE @]
        e  == emitCommitted(t, s1, pooled)
    IN  [st |-> e.st, released |-> e.released, ret |-> e.st.outBuf]

\* Flush without st.buf = st.buf[:0]
FlushKeepsBuf(t, st, pooled) ==
    LET s1 == [st EXCEPT !.outBuf = << >>] IN
    IF Len(s1.buf) > 0
      THEN LET call == encodeOfflineCall(t, s1.buf, pooled) IN
           [st   |-> [s1 EXCEPT !.outBuf = @ \o call.out],
            released |-> call.released,
            ret  |-> call.out]
      ELSE [st |-> s1, released |-> << >>, ret |-> << >>]

Flush(t, st, pooled) ==
    LET s1 == [st EXCEPT !.outBuf = << >>] IN
    IF Len(s1.buf) > 0
      THEN LET call == encodeOfflineCall(t, s1.buf, pooled) IN
           [st   |-> [s1 EXCEPT !.outBuf = @ \o call.out, !.buf = << >>],
            released |-> call.released,
            ret  |-> call.out]
      ELSE [st |-> s1, released |-> << >>, ret |-> << >>]

(***************************************************************************)
(* The models explored: every vocabulary made of the first k tokens of     *)
(* SampleVocab, with every merges file that lists pairs of SampleVocab     *)
(* tokens whose concatenation is a SampleVocab token, each at most once,   *)
(* in any order.  Loads that fail (a vocabulary without a token for byte   *)
(* 1, a merges line naming a token the vocabulary lacks) are part of the   *)
(* family.                                                                 *)
(***************************************************************************)
VocabFiles == { SubSeq(SampleVocab, 1, k) : k \in 1..Len(SampleVocab) }

TokenStrings == { SampleVocab[k] : k \in 1..Len(SampleVocab) }

MergeLines == { <<x, y>> : x \in TokenStrings, y \in TokenStrings } 

LegalMergeLines == { l \in MergeLines : l[1] \o l[2] \in TokenStrings }

RECURSIVE ArrangementsOf(_)
ArrangementsOf(S) ==
    {<< >>} \cup UNION { { <<l>> \o rest : rest \in ArrangementsOf(S \ {l}) } : l \in S }

MergeFiles == ArrangementsOf(LegalMergeLines)

Loads == { LoadTokenizerFromFiles(v, m) : v \in VocabFiles, m \in MergeFiles }

LoadedModels == { t \in Loads : t.ok }

(***************************************************************************)
(* State.                                                                  *)
(*   tok      the Tokenizer, or the failed load                            *)
(*   pool     the scratch held by tok.scratchPool (EmptyScratch: none)     *)
(*   enc      the streaming encoder                                        *)
(*   op, arg, ret   the last call, its argument and what it returned       *)
(*   bufBefore   the streaming encoder's buffer when the last call began   *)
(*   fed, emitted   the bytes taken in and the tokens given out: by the    *)
(*            streaming encoder since its stream began (a stream ends      *)
(*            with Flush), by the last EncodeOffline call in SpecOffline   *)
(*            and SpecPool                                                 *)
(*   bq, mh   a BucketQueue and a MergeHeap driven side by side            *)
(*            (SpecQueues)                                                 *)
(*   ar       the EncodeOffline call that runs step by step (SpecMerge):   *)
(*            its position pc, its input and its working state             *)
(*   log      what that call has done so far: the counts of candidates     *)
(*            pushed, of Pop calls that returned one and of merges, the    *)
(*            slots absorbed, and the last step with the list before it    *)
(*   conc     the goroutines that call EncodeOffline on the shared         *)
(*            Tokenizer at the same time (SpecConc): the scratch objects   *)
(*            in memory, the ones the pool holds, and every goroutine's    *)
(*            call                                                         *)
(*   al       the arrays behind the output buffer of a streaming encoder   *)
(*            and behind the slices it has returned (SpecAlias)            *)
(*   est      the node-list streaming EncoderState (SpecNodes)             *)
(*   se       the incremental streaming encoder: its rank-bucketed         *)
(*            mergeHeap (SpecBuckets) and its token list (SpecCommit)      *)
(***************************************************************************)
VARIABLES tok, pool, enc, op, arg, ret, bufBefore, fed, emitted, bq, mh, ar, log,
          conc, al, est, se

vars == <<tok, pool, enc, op, arg, ret, bufBefore, fed, emitted, bq, mh, ar, log, conc, al,
          est, se>>

\* the two stand-alone queues, untouched where no queue is driven directly
IdleQueues == bq = NewBucketQueue(0) /\ mh = NewMergeHeap(FALSE)

\* no streaming encoder of the node-list or the incremental kind in use
IdleStreams == est = << >> /\ se = << >>

\* no EncodeOffline call running step by step
IdleCall ==
    ar = [pc |-> "idle"] /\ log = << >> /\ conc = << >> /\ al = << >> /\ IdleStreams

(***************************************************************************)
(* Spec: one streaming encoder over a loaded model, driven by Push and     *)
(* Flush.  sync.Pool may hand out nil at any Get; here it always does, so  *)
(* every EncodeOffline call of the encoder starts from a new scratch, and  *)
(* the scratch the call puts back is kept in pool.  (SpecPool explores    *)
(* the calls that reuse a pooled scratch.)                                 *)
(***************************************************************************)
Init ==
    /\ tok \in LoadedModels
    /\ pool = EmptyScratch
    /\ enc = NewNaiveStreamingEncoderState(tok)
    /\ op = "new"
    /\ arg = << >>
    /\ ret = << >>
    /\ bufBefore = << >>
    /\ fed = << >>
    /\ emitted = << >>
    /\ IdleQueues
    /\ IdleCall

StreamOpen == op # "flush"

DoPush ==
    \E chunk \in ByteStrings(MaxChunkLen) :
        LET r == Push(tok, enc, EmptyScratch, chunk) IN
        /\ (IF StreamOpen THEN Len(fed) ELSE 0) + Len(chunk) <= MaxStreamLen
        /\ enc' = r.st
        /\ pool' = poolAfter(pool, r.released)
        /\ op' = "push"
        /\ arg' = chunk
        /\ ret' = r.ret
        /\ bufBefore' = enc.buf
        /\ fed' = (IF StreamOpen THEN fed ELSE << >>) \o chunk
        /\ emitted' = (IF StreamOpen THEN emitted ELSE << >>) \o r.ret
        /\ UNCHANGED <<tok, bq, mh, ar, log, conc, al, est, se>>

DoFlush ==
    LET r == Flush(tok, enc, EmptyScratch) IN
    /\ enc' = r.st
    /\ pool' = poolAfter(pool, r.released)
    /\ op' = "flush"
    /\ arg' = << >>
    /\ ret' = r.ret
    /\ bufBefore' = enc.buf
    /\ fed' = (IF StreamOpen THEN fed ELSE << >>)
    /\ emitted' = (IF StreamOpen THEN emitted ELSE << >>) \o r.ret
    /\ UNCHANGED <<tok, bq, mh, ar, log, conc, al, est, se>>

Next == DoPush \/ DoFlush

Spec == Init /\ [][Next]_vars

(***************************************************************************)
(* SpecOffline: EncodeOffline and Decode calls on one Tokenizer whose pool *)
(* hands out nil.  Failed loads are initial states without successors: no  *)
(* Tokenizer is returned.                                                  *)
(***************************************************************************)
InitOffline ==
    /\ tok \in Loads
    /\ pool = EmptyScratch
    /\ enc = [tailReserve |-> 0, buf |-> << >>, outBuf |-> << >>]
    /\ op = "load"
    /\ arg = << >>
    /\ ret = << >>
    /\ bufBefore = << >>
    /\ fed = << >>
    /\ emitted = << >>
    /\ IdleQueues
    /\ IdleCall

DoEncode ==
    \E input \in ByteStrings(MaxInputLen) :
        LET r == encodeOfflineCall(tok, input, EmptyScratch) IN
        /\ tok.ok
        /\ pool' = poolAfter(pool, r.released)
        /\ op' = "encode"
        /\ arg' = input
        /\ ret' = r.out
        /\ fed' = input
        /\ emitted' = r.out
        /\ UNCHANGED <<tok, enc, bufBefore, bq, mh, ar, log, conc, al, est, se>>

DoDecode ==
    /\ tok.ok
    /\ op = "encode"
    /\ op' = "decode"
    /\ arg' = emitted
    /\ ret' = Decode(tok, emitted)
    /\ UNCHANGED <<tok, pool, enc, bufBefore, fed, emitted, bq, mh, ar, log, conc, al, est, se>>

NextOffline == DoEncode \/ DoDecode

SpecOffline == InitOffline /\ [][NextOffline]_vars

(***************************************************************************)
(* SpecPool: EncodeOffline calls on one Tokenizer whose pool hands out     *)
(* either the scratch the previous call put back, with whatever that call  *)
(* left in it, or nil.                                                     *)
(***************************************************************************)
\* what scratchPool.Get may return
PoolGet == {pool, EmptyScratch}

DoEncodePooled ==
    \E input \in ByteStrings(MaxPoolInputLen), pooled \in PoolGet :
        LET r == encodeOfflineCall(tok, input, pooled) IN
        /\ pool' = poolAfter(pool, r.released)
        /\ op' = IF pooled = EmptyScratch THEN "encode" ELSE "encode-reuse"
        /\ arg' = input
        /\ ret' = r.out
        /\ fed' = input
        /\ emitted' = r.out
        /\ UNCHANGED <<tok, enc, bufBefore, bq, mh, ar, log, conc, al, est, se>>

InitPool == InitOffline /\ tok.ok

NextPool == DoEncodePooled

SpecPool == InitPool /\ [][NextPool]_vars

(***************************************************************************)
(* Reference points the properties below compare the program against.      *)
(***************************************************************************)
IsPrefix(p, q) == Len(p) <= Len(q) /\ SubSeq(q, 1, Len(p)) = p

\* positions k of an adjacent pair of toks that the merge table lists
MergeablePositions(t, toks) ==
    { k \in 1..(Len(toks) - 1) : <<toks[k], toks[k + 1]>> \in DOMAIN t.pairRank }

\* the textbook merger: apply the lowest-rank merge among all adjacent
\* pairs, the leftmost one on ties, until no adjacent pair is in the table
RECURSIVE GreedyMerge(_, _)
GreedyMerge(t, toks) ==
    LET P == MergeablePositions(t, toks) IN
    IF P = {} THEN toks
    ELSE LET best == Min({ t.pairRank[<<toks[k], toks[k + 1]>>] : k \in P })
             k    == Min({ q \in P : t.pairRank[<<toks[q], toks[q + 1]>>] = best })
         IN  GreedyMerge(t, SubSeq(toks, 1, k - 1)
                              \o <<t.pairToken[<<toks[k], toks[k + 1]>>]>>
                              \o SubSeq(toks, k + 2, Len(toks)))

ReferenceEncode(t, input) ==
    GreedyMerge(t, [k \in 1..Len(input) |-> t.byteToToken[input[k]]])

Fresh == NewNaiveStreamingEncoderState(tok)

(***************************************************************************)
(* C1.  Streaming equals offline: for every byte string and every way of   *)
(* cutting it into chunks, the tokens returned by the Push calls followed  *)
(* by the tokens returned by Flush are EncodeOffline of the whole string.  *)
(* Stated at the state after Flush, under Spec.                            *)
(***************************************************************************)
C1_StreamingEqualsOffline ==
    op = "flush" => emitted = EncodeOffline(tok, fed, EmptyScratch)

(***************************************************************************)
(* C2.  Round trip: Decode(EncodeOffline(S)) = S for every byte string S.  *)
(* Stated at the state after Decode of the tokens of the last encode,      *)
(* under SpecOffline.                                                      *)
(***************************************************************************)
C2_RoundTrip ==
    op = "decode" => ret = fed

\* a decode of an encoding in which at least one merge was applied
C2_Witness ==
    op = "decode" /\ Len(fed) = MaxInputLen /\ Len(emitted) < Len(fed) /\ ret = fed

(***************************************************************************)
(* C3.  The production EncodeOffline returns, for every input, the token   *)
(* sequence of the reference merger (lowest rank first, leftmost on ties,  *)
(* until no adjacent pair is in the table).  Under SpecOffline.            *)
(***************************************************************************)
C3_MatchesReference ==
    op = "encode" => ret = ReferenceEncode(tok, arg)

(***************************************************************************)
(* C4.  Streaming round trip: after Flush, decoding the tokens emitted by  *)
(* the Push calls and the Flush, in emission order, gives back the bytes   *)
(* that were pushed.  Under Spec.                                          *)
(***************************************************************************)
C4_StreamingRoundTrip ==
    op = "flush" => Decode(tok, emitted) = fed

\* a flushed stream some of whose tokens were emitted by a Push, and in
\* which a merge was applied
C4_Witness ==
    /\ op = "flush"
    /\ Len(fed) = MaxStreamLen
    /\ Len(ret) < Len(emitted)
    /\ Len(emitted) < Len(fed)
    /\ Decode(tok, emitted) = fed

(***************************************************************************)
(* C5.  Flush returns the tokens of all bytes still buffered, and the      *)
(* encoder it leaves answers every later sequence of Push and Flush calls  *)
(* as a freshly constructed encoder does: its buffer and reserve are those *)
(* of a fresh encoder, and any one call on it returns what the call        *)
(* returns on a fresh encoder and leaves the same encoder, field by field, *)
(* so the two agree from then on.  Under Spec.                             *)
(***************************************************************************)
C5_FlushResets ==
    op = "flush" =>
        /\ ret = EncodeOffline(tok, bufBefore, EmptyScratch)
        /\ enc.buf = Fresh.buf
        /\ enc.tailReserve = Fresh.tailReserve
        /\ \A chunk \in ByteStrings(MaxChunkLen) :
               LET here  == Push(tok, enc, pool, chunk)
                   there == Push(tok, Fresh, pool, chunk)
               IN  here.ret = there.ret /\ here.st = there.st
        /\ LET here  == Flush(tok, enc, pool)
               there == Flush(tok, Fresh, pool)
           IN  here.ret = there.ret /\ here.st = there.st

\* a Flush that had bytes to encode, after Push calls that emitted tokens
C5_Witness ==
    /\ op = "flush"
    /\ bufBefore # << >>
    /\ ret # << >>
    /\ Len(ret) < Len(emitted)
    /\ enc.outBuf # Fresh.outBuf
    /\ enc.buf = << >>

(***************************************************************************)
(* C6.  Tokens are never revised: after any Push calls that delivered the  *)
(* bytes B, the tokens emitted so far are a prefix of EncodeOffline(B \o X)*)
(* for every continuation X.  Under Spec, continuations up to the stream   *)
(* length explored.                                                        *)
(***************************************************************************)
C6_EmittedIsStablePrefix ==
    op = "push" =>
        \A X \in ByteStrings(MaxStreamLen - Len(fed)) :
            IsPrefix(emitted, EncodeOffline(tok, fed \o X, EmptyScratch))

(***************************************************************************)
(* C7.  After every Push the buffer is bounded.  As stated: it holds at    *)
(* most MaxTokenByteLen - 1 bytes.  As the code has it: it holds at most   *)
(* 2 * MaxTokenByteLen - 2 bytes, the reserve plus what is left of a token *)
(* that straddles the emit limit.  Under Spec.                             *)
(***************************************************************************)
C7_BufferWithinReserve ==
    op = "push" => Len(enc.buf) <= tok.MaxTokenByteLen - 1

C7_BufferWithinTwiceReserve ==
    op = "push" => Len(enc.buf) <= 2 * tok.MaxTokenByteLen - 2

\* a Push that leaves more than the reserve behind, and as much as the
\* bound allows
C7_Witness ==
    /\ op = "push"
    /\ Len(enc.buf) > tok.MaxTokenByteLen - 1
    /\ Len(enc.buf) = 2 * tok.MaxTokenByteLen - 2

(***************************************************************************)
(* C8.  Single bytes: a load either fails or yields a model in which every *)
(* byte b has exactly one single-byte token, byteToToken[b]; and then      *)
(* EncodeOffline of the one-byte input b is that one token, and Decode of  *)
(* it is b again.  Under SpecOffline.                                      *)
(***************************************************************************)
C8_SingleByte ==
    tok.ok =>
        /\ \A b \in Bytes :
              /\ b \in DOMAIN tok.byteToToken
              /\ { id \in DOMAIN tok.revVocab : tok.revVocab[id] = <<b>> }
                     = {tok.byteToToken[b]}
        /\ Len(fed) = 1 /\ op \in {"encode", "decode"}
              => emitted = <<tok.byteToToken[fed[1]]>>
        /\ Len(fed) = 1 /\ op = "decode" => ret = fed

\* a one-byte input encoded and decoded
C8_Witness ==
    /\ op = "decode"
    /\ Len(fed) = 1
    /\ emitted = <<tok.byteToToken[fed[1]]>>
    /\ ret = fed

(***************************************************************************)
(* C9.  EncodeOffline is a function of its input alone: a call returns the *)
(* same tokens whatever earlier calls left in the pooled scratch, and      *)
(* encoding the decoding of its result gives the result again.  Under      *)
(* SpecPool.                                                               *)
(***************************************************************************)
C9_FunctionOfInput ==
    op \in {"encode", "encode-reuse"} =>
        /\ ret = EncodeOffline(tok, arg, EmptyScratch)
        /\ EncodeOffline(tok, Decode(tok, ret), pool) = ret

\* a call on a reused scratch that is longer than the input and holds a
\* token of an earlier call beyond the input's slots
C9_Witness ==
    /\ op = "encode-reuse"
    /\ Len(arg) >= 1
    /\ \E i \in DOMAIN pool.tokens : i >= Len(arg) /\ pool.tokens[i] # 0
    /\ ret = EncodeOffline(tok, arg, EmptyScratch)

(***************************************************************************)
(* C10.  Empty in, empty out: EncodeOffline of the empty string returns no *)
(* tokens, Decode of no tokens returns no bytes, and on a fresh streaming  *)
(* encoder both Flush and Push of an empty chunk return no tokens.  Under  *)
(* SpecOffline.                                                            *)
(***************************************************************************)
C10_EmptyInEmptyOut ==
    tok.ok =>
        /\ op = "encode" /\ arg = << >> => ret = << >>
        /\ op = "decode" /\ arg = << >> => ret = << >>
        /\ EncodeOffline(tok, << >>, pool) = << >>
        /\ Decode(tok, << >>) = << >>
        /\ Flush(tok, Fresh, pool).ret = << >>
        /\ Push(tok, Fresh, pool, << >>).ret = << >>

\* the empty string encoded, and its empty token list decoded
C10_Witness ==
    op = "decode" /\ fed = << >> /\ arg = << >> /\ ret = << >>

(***************************************************************************)
(* SpecDecode: one Decode call on a loaded Tokenizer with any list of ids, *)
(* valid or not.  emitted holds the bytes the call had appended to its     *)
(* output when it returned or panicked.                                    *)
(***************************************************************************)
\* the ids tried: the two ends of the valid range and the first invalid id
\* on either side of it
DecodeIds(t) ==
    LET V == Cardinality(DOMAIN t.revVocab) IN {-1, 0, 1, V - 1, V}

TokenLists(ids, n) == UNION { [1..k -> ids] : k \in 0..n }

DoDecodeTokens ==
    \E tokens \in TokenLists(DecodeIds(tok), MaxDecodeLen) :
        LET r == decodeRun(tok, tokens) IN
        /\ op = "load"
        /\ op' = IF r.panicked THEN "decode-panic" ELSE "decode"
        /\ arg' = tokens
        /\ ret' = Decode(tok, tokens)
        /\ emitted' = r.written
        /\ UNCHANGED <<tok, pool, enc, bufBefore, fed, bq, mh, ar, log, conc, al, est, se>>

NextDecode == DoDecodeTokens

SpecDecode == InitPool /\ [][NextDecode]_vars

(***************************************************************************)
(* C11.  Decode panics exactly when some id of the list, at whatever       *)
(* position, is negative or at least the vocabulary size; when it panics   *)
(* it has produced no output byte; otherwise it returns the byte strings   *)
(* of the ids, concatenated in order.  Under SpecDecode.                   *)
(***************************************************************************)
C11_DecodePanicsIffOutOfRange ==
    op \in {"decode", "decode-panic"} =>
        LET V   == Cardinality(DOMAIN tok.revVocab)
            bad == { k \in 1..Len(arg) : arg[k] < 0 \/ arg[k] >= V }
        IN  /\ (op = "decode-panic") <=> (bad # {})
            /\ op = "decode-panic" => ret = Panic /\ emitted = << >>
            /\ op = "decode" =>
                  ret = FlattenSeq([k \in 1..Len(arg) |-> tok.revVocab[arg[k]]])

\* a panic on a list whose only invalid id is the last one, after valid ones
C11_Witness ==
    /\ op = "decode-panic"
    /\ Len(arg) = MaxDecodeLen
    /\ \A k \in 1..(Len(arg) - 1) : ~idOutOfRange(tok, arg[k])
    /\ idOutOfRange(tok, arg[Len(arg)])
    /\ emitted = << >>

(***************************************************************************)
(* SpecQueues: the same Push and Pop calls applied to a BucketQueue and to *)
(* a MergeHeap, and Reset calls on the MergeHeap.  ret holds what the two  *)
(* Pop calls returned, the BucketQueue's first.                            *)
(***************************************************************************)
QueueCands ==
    { MergeCand(rank, pos, 0, 0, 0, 0) : rank \in 0..MaxQueueRank, pos \in 0..MaxQueuePos }

InitQueues ==
    /\ tok = Fail("no model loaded")
    /\ pool = EmptyScratch
    /\ enc = [tailReserve |-> 0, buf |-> << >>, outBuf |-> << >>]
    /\ op = "new"
    /\ arg = << >>
    /\ ret = << >>
    /\ bufBefore = << >>
    /\ fed = << >>
    /\ emitted = << >>
    /\ bq = NewBucketQueue(MaxQueueRank)
    /\ mh = NewMergeHeap(FALSE)
    /\ IdleCall

QueuePush ==
    \E c \in QueueCands :
        /\ BucketQueueLen(bq) < MaxQueueLen
        /\ MergeHeapLen(mh) < MaxQueueLen
        /\ bq' = BucketQueuePush(bq, c)
        /\ mh' = MergeHeapPush(mh, c)
        /\ op' = "qpush"
        /\ arg' = <<c>>
        /\ ret' = << >>
        /\ UNCHANGED <<tok, pool, enc, bufBefore, fed, emitted, ar, log, conc, al, est, se>>

QueuePop ==
    LET b == BucketQueuePop(bq)
        h == MergeHeapPop(mh)
    IN  /\ bq' = b.q
        /\ mh' = h.q
        /\ op' = "qpop"
        /\ arg' = << >>
        /\ ret' = << [c |-> b.c, ok |-> b.ok], [c |-> h.c, ok |-> h.ok] >>
        /\ UNCHANGED <<tok, pool, enc, bufBefore, fed, emitted, ar, log, conc, al, est, se>>

\* MergeHeap.Reset; the BucketQueue has no Reset and keeps what it holds.
\* log records that the two queues no longer had the same calls.
QueueReset ==
    /\ mh' = MergeHeapReset(mh)
    /\ op' = "qreset"
    /\ arg' = << >>
    /\ ret' = << >>
    /\ log' = <<"reset">>
    /\ UNCHANGED <<tok, pool, enc, bufBefore, fed, emitted, bq, ar, conc, al, est, se>>

NextQueues == QueuePush \/ QueuePop \/ QueueReset

SpecQueues == InitQueues /\ [][NextQueues]_vars

(***************************************************************************)
(* C12.  The two queues are interchangeable: after any sequence of Push    *)
(* and Pop calls applied to both, they hold equally many candidates, and   *)
(* every Pop either finds both empty or returns from both a candidate with *)
(* the same Rank and Pos.  Under SpecQueues, as long as no Reset, which    *)
(* only the MergeHeap has, was called (log is empty).                      *)
(***************************************************************************)
C12_QueuesAgree ==
    log = << >> =>
        /\ BucketQueueLen(bq) = MergeHeapLen(mh)
        /\ op = "qpop" =>
              /\ ret[1].ok = ret[2].ok
              /\ ret[1].ok => ret[1].c.Rank = ret[2].c.Rank /\ ret[1].c.Pos = ret[2].c.Pos

(***************************************************************************)
(* SpecLookup: one PairLookup built from a table of packed pairs for a     *)
(* vocabulary size below, at and above the dense-tier limit, and one       *)
(* Lookup call on it.  tok holds the table, the size and the PairLookup.   *)
(***************************************************************************)
LookupVocabSizes == {3, fastLookupLimit, fastLookupLimit + 2}

\* the ids tried: the two ends of the dense tier and of the vocabulary
LookupIds(V) ==
    { id \in {0, fastLookupLimit - 1, fastLookupLimit, V - 1} : id < V }

\* the packed values tried: rank 0 with token 2, rank 1 with token 0, and
\* the word that equals the sentinel
PackedValues == { <<0, 2>>, <<1, 0>>, Sentinel }

\* the tables of at most MaxTableSize pairs over the ids tried
PairTables(V) ==
    LET keys == { packPair(a, b) : a \in LookupIds(V), b \in LookupIds(V) } IN
    UNION { [K -> PackedValues] :
              K \in { S \in SUBSET keys : Cardinality(S) <= MaxTableSize } }

InitLookup ==
    /\ \E V \in LookupVocabSizes : \E table \in PairTables(V) :
          tok = [ok |-> TRUE, vocabSize |-> V, pairInfo |-> table,
                 pairLookup |-> NewPairLookup(table, V)]
    /\ pool = EmptyScratch
    /\ enc = [tailReserve |-> 0, buf |-> << >>, outBuf |-> << >>]
    /\ op = "new"
    /\ arg = << >>
    /\ ret = << >>
    /\ bufBefore = << >>
    /\ fed = << >>
    /\ emitted = << >>
    /\ IdleQueues
    /\ IdleCall

DoLookup ==
    \E a \in LookupIds(tok.vocabSize), b \in LookupIds(tok.vocabSize) :
        /\ op = "new"
        /\ op' = "lookup"
        /\ arg' = <<a, b>>
        /\ ret' = Lookup(tok.pairLookup, a, b)
        /\ UNCHANGED <<tok, pool, enc, bufBefore, fed, emitted, bq, mh, ar, log, conc, al, est, se>>

NextLookup == DoLookup

SpecLookup == InitLookup /\ [][NextLookup]_vars

(***************************************************************************)
(* C13.  For a table none of whose packed values is the all-ones sentinel, *)
(* and ids a, b below the vocabulary size: Lookup(a, b) reports found with *)
(* value v exactly when the table maps the packed pair (a, b) to v, in the *)
(* dense tier and in the fallback alike.  Under SpecLookup.                *)
(***************************************************************************)
C13_LookupMatchesTable ==
    (op = "lookup" /\ \A k \in DOMAIN tok.pairInfo : tok.pairInfo[k] # Sentinel) =>
        LET key == packPair(arg[1], arg[2]) IN
        /\ ret.ok <=> key \in DOMAIN tok.pairInfo
        /\ ret.ok => ret.value = tok.pairInfo[key]

\* a pair found through the fallback map, in a table that also has a pair in
\* the dense tier
C13_Witness ==
    /\ op = "lookup"
    /\ \A k \in DOMAIN tok.pairInfo : tok.pairInfo[k] # Sentinel
    /\ arg[1] < tok.pairLookup.fastLookupSize
    /\ arg[2] >= tok.pairLookup.fastLookupSize
    /\ DOMAIN tok.pairLookup.fastLookup # {}
    /\ ret.ok
    /\ ret.value = tok.pairInfo[packPair(arg[1], arg[2])]


(***************************************************************************)
(* SpecMerge: one EncodeOffline call of a loaded Tokenizer taken step by   *)
(* step, of the core encoder (impl "bucket") or of the heap variant (impl  *)
(* "heap").  MergeStart is the call up to the merge loop (scratch, arena,     *)
(* seeding), MergeStep is one iteration of the loop (one Pop and the body  *)
(* for the candidate it returned), MergeWalk is the walk that builds the   *)
(* returned slice.  log records what the call has done: the candidates     *)
(* pushed, the Pop calls that returned one, the merges executed, the slots *)
(* absorbed, an identity for every token occurrence (0..n-1 for the base   *)
(* tokens, a new one for every merged token), the occurrences merges have  *)
(* consumed, and the last step with the state it started from.             *)
(***************************************************************************)
MaxMergeInputLen == 4

\* the slots the loop of lines 128-131 visits, in order
RECURSIVE walkSlots(_, _)
walkSlots(st, i) ==
    IF i = -1 THEN << >> ELSE <<i>> \o walkSlots(st, st.next[i])

\* the live list: the slots reached from head = 0 over next
liveSlots(st) == walkSlots(st, 0)

\* the linked list and the ghost data of the log before a step
listOf(st) ==
    [tokens |-> st.tokens, prev |-> st.prev, next |-> st.next, live |-> st.live]

\* the two encoders
Impls == {"bucket", "heap"}

\* h.Len() of the queue of either encoder
queueLen(h) == IF "buckets" \in DOMAIN h THEN BucketQueueLen(h) ELSE MergeHeapLen(h)

\* the candidates the queue of either encoder holds
candsIn(h) ==
    IF "buckets" \in DOMAIN h
        THEN UNION { { h.buckets[r][k] : k \in DOMAIN h.buckets[r] } : r \in DOMAIN h.buckets }
        ELSE { h.items[k] : k \in DOMAIN h.items }

\* the candidates among cands with the right neighbour that their left slot
\* has in st, the state they were pushed in
withRightSlot(st, cands) == { [c |-> x, j |-> st.next[x.Pos]] : x \in cands }

MergeStart ==
    \E input \in ByteStrings(MaxMergeInputLen) \ {<< >>}, impl \in Impls :
        LET n  == Len(input)
            st == IF impl = "bucket"
                    THEN seedFrom(tok, initArena(tok, input,
                                      acquireScratch(EmptyScratch, n)), 0)
                    ELSE heapSeedFrom(tok, heapInitArena(tok, input), 0)
        IN  /\ ar.pc = "idle"
            /\ ar' = [pc |-> "loop", impl |-> impl, input |-> input, st |-> st,
                      out |-> << >>, walked |-> << >>]
            /\ log' = [pushes   |-> queueLen(st.h),
                       pops     |-> 0,
                       merges   |-> 0,
                       steps    |-> 0,
                       absorbed |-> {},
                       occ      |-> [i \in 0..(n - 1) |-> i],
                       consumed |-> {},
                       last     |-> [kind |-> "seed", c |-> NoCand, i |-> -1, j |-> -1],
                       pushedAt |-> withRightSlot(st, candsIn(st.h)),
                       before   |-> [list |-> listOf(st), absorbed |-> {},
                                     occ |-> [i \in 0..(n - 1) |-> i],
                                     consumed |-> {}, pushes |-> 0, queued |-> 0]]
            /\ op' = "start"
            /\ arg' = input
            /\ UNCHANGED <<tok, pool, enc, ret, bufBefore, fed, emitted, bq, mh, conc, al, est, se>>

MergeStep ==
    /\ ar.pc = "loop"
    /\ LET p      == IF ar.impl = "bucket" THEN BucketQueuePop(ar.st.h)
                                              ELSE MergeHeapPop(ar.st.h)
           popped == [ar.st EXCEPT !.h = p.q]
           st     == IF ~p.ok THEN popped
                     ELSE IF ar.impl = "bucket" THEN handleCand(tok, popped, p.c)
                     ELSE heapHandleCand(tok, popped, p.c)
           merged == p.ok /\ listOf(st) # listOf(popped)
           i      == p.c.Pos
           j      == IF merged THEN ar.st.next[i] ELSE -1
           bef    == [list |-> listOf(ar.st), absorbed |-> log.absorbed,
                      occ |-> log.occ, consumed |-> log.consumed,
                      pushes |-> log.pushes, queued |-> queueLen(ar.st.h)]
       IN  /\ ar' = [ar EXCEPT !.pc = IF p.ok THEN "loop" ELSE "walk", !.st = st]
           /\ log' = [pushes   |-> log.pushes
                                     + (queueLen(st.h) - queueLen(popped.h)),
                      pops     |-> log.pops + (IF p.ok THEN 1 ELSE 0),
                      merges   |-> log.merges + (IF merged THEN 1 ELSE 0),
                      steps    |-> log.steps + 1,
                      absorbed |-> IF merged THEN log.absorbed \cup {j} ELSE log.absorbed,
                      occ      |-> IF merged
                                     THEN [log.occ EXCEPT ![i] = ar.st.n + log.merges]
                                     ELSE log.occ,
                      consumed |-> IF merged
                                     THEN log.consumed \cup {log.occ[i], log.occ[j]}
                                     ELSE log.consumed,
                      last     |-> [kind |-> IF ~p.ok THEN "empty"
                                             ELSE IF merged THEN "merge" ELSE "skip",
                                    c |-> p.c, i |-> IF p.ok THEN i ELSE -1, j |-> j],
                      pushedAt |-> log.pushedAt
                                     \cup withRightSlot(st, candsIn(st.h) \ candsIn(popped.h)),
                      before   |-> bef]
           /\ op' = IF ~p.ok THEN "empty" ELSE IF merged THEN "merge" ELSE "skip"
    /\ UNCHANGED <<tok, pool, enc, arg, ret, bufBefore, fed, emitted, bq, mh, conc, al, est, se>>

MergeWalk ==
    /\ ar.pc = "walk"
    /\ ar' = [ar EXCEPT !.pc = "done", !.out = outputWalk(ar.st, 0),
                        !.walked = walkSlots(ar.st, 0)]
    /\ op' = "encode"
    /\ ret' = outputWalk(ar.st, 0)
    /\ pool' = IF ar.impl = "bucket" THEN releaseScratch(ar.st) ELSE pool
    /\ UNCHANGED <<tok, enc, arg, bufBefore, fed, emitted, bq, mh, log, conc, al, est, se>>

\* SampleVocab with the token bab, and the merges files over the lines
\* "a b" and "b ab": the models in which a merged token is the right token
\* of a pair of the table
LeftPushVocab == SampleVocab \o << <<1, 0, 1>> >>

LeftPushModels ==
    { LoadTokenizerFromFiles(LeftPushVocab, m) :
        m \in ArrangementsOf({ << <<0>>, <<1>> >>, << <<1>>, <<0, 1>> >> }) }

\* the models in which a pair of the table can straddle the boundary between
\* the two operands of a merge: LeftPushVocab with the lines "a b", "b ab",
\* "b a" and "ba b" ("bab" splits into b, ab and into ba, b), and the
\* vocabulary a, b, aa, aaa with the lines "a a", "aa a" and "a aa"
TripleVocab == << <<0>>, <<1>>, <<0, 0>>, <<0, 0, 0>> >>

StraddleModels ==
    { LoadTokenizerFromFiles(LeftPushVocab, m) :
        m \in ArrangementsOf({ << <<0>>, <<1>> >>, << <<1>>, <<0, 1>> >>,
                               << <<1>>, <<0>> >>, << <<1, 0>>, <<1>> >> }) }
    \cup { LoadTokenizerFromFiles(TripleVocab, m) :
             m \in ArrangementsOf({ << <<0>>, <<0>> >>, << <<0, 0>>, <<0>> >>,
                                    << <<0>>, <<0, 0>> >> }) }

InitMerge ==
    /\ tok \in LoadedModels \cup LeftPushModels \cup StraddleModels
    /\ pool = EmptyScratch
    /\ enc = [tailReserve |-> 0, buf |-> << >>, outBuf |-> << >>]
    /\ op = "load"
    /\ arg = << >>
    /\ ret = << >>
    /\ bufBefore = << >>
    /\ fed = << >>
    /\ emitted = << >>
    /\ IdleQueues
    /\ IdleCall

NextMerge == MergeStart \/ MergeStep \/ MergeWalk

SpecMerge == InitMerge /\ [][NextMerge]_vars

\* C14: a call on n >= 1 bytes terminates, in either encoder.  At every point of the call at
\* most n - 1 merges have been executed, the live list has exactly
\* n - (merges so far) nodes (every merge shortens it by exactly one), at
\* most (n - 1) + 2 (n - 1) candidates have been pushed, every Pop that
\* returned a candidate removed exactly one from the queue, so the loop has
\* run at most (pushes + 1) iterations, and the step-wise call returns what
\* EncodeOffline returns.
C14_MergeLoopTerminates ==
    ar.pc # "idle" =>
        LET n == ar.st.n IN
        /\ n >= 1
        /\ log.merges <= n - 1
        /\ Len(liveSlots(ar.st)) = n - log.merges
        /\ log.pushes <= (n - 1) + 2 * (n - 1)
        /\ log.pops <= log.pushes
        /\ queueLen(ar.st.h) = log.pushes - log.pops
        /\ log.steps <= log.pushes + 1
        /\ (log.last.kind \in {"merge", "skip"} =>
               queueLen(ar.st.h) - (log.pushes - log.before.pushes)
                   = log.before.queued - 1)
        /\ (ar.pc = "done" =>
               ar.out = IF ar.impl = "bucket"
                          THEN EncodeOffline(tok, ar.input, EmptyScratch)
                          ELSE EncodeOfflineHeap(tok, ar.input))

\* a finished call of the core encoder on three bytes or more that merged
\* them down to one token
C14_Witness ==
    /\ ar.pc = "done"
    /\ ar.impl = "bucket"
    /\ ar.st.n >= 3
    /\ log.merges = ar.st.n - 1
    /\ log.pops = log.pushes
    /\ Len(ar.out) = 1

\* the slots of a call on n bytes
slotsOf(n) == 0..(n - 1)

\* C20: in either encoder, every executed merge has as operands two slots i and j = next[i]
\* that no earlier merge absorbed and that are adjacent in the list at that
\* moment; a slot a merge absorbed has prev = next = -1 from then on, is in
\* the list no more, is an operand of no later merge and is not visited by
\* the output walk; no merge consumes a token occurrence that an earlier
\* merge consumed.
C20_MergeOperandsLiveAdjacent ==
    ar.pc # "idle" =>
        LET n    == ar.st.n
            i    == log.last.i
            j    == log.last.j
            bef  == log.before
            list == bef.list
        IN  /\ (log.last.kind = "merge" =>
                   /\ i \in slotsOf(n) /\ j \in slotsOf(n) /\ i # j
                   /\ i \notin bef.absorbed /\ j \notin bef.absorbed
                   /\ list.next[i] = j /\ list.prev[j] = i
                   /\ \E k \in 1..(Len(walkSlots(list, 0)) - 1) :
                          walkSlots(list, 0)[k] = i /\ walkSlots(list, 0)[k + 1] = j
                   /\ bef.occ[i] # bef.occ[j]
                   /\ bef.occ[i] \notin bef.consumed
                   /\ bef.occ[j] \notin bef.consumed)
            /\ \A s \in log.absorbed : ar.st.prev[s] = -1 /\ ar.st.next[s] = -1
            /\ {liveSlots(ar.st)[k] : k \in 1..Len(liveSlots(ar.st))}
                   = slotsOf(n) \ log.absorbed
            /\ (ar.pc = "done" =>
                   \A k \in 1..Len(ar.walked) : ar.walked[k] \notin log.absorbed)

\* a finished call whose last merge had as its left operand a token that an
\* earlier merge produced, next to a slot absorbed by then
C20_Witness ==
    /\ ar.pc = "done"
    /\ log.merges >= 2
    /\ Cardinality(log.absorbed) >= 2
    /\ Len(ar.walked) >= 1
    /\ \E s \in log.consumed : s >= ar.st.n

(***************************************************************************)
(* SpecConc: goroutines that call the core EncodeOffline on one shared     *)
(* Tokenizer, their steps interleaved.  A scratch is an object in memory   *)
(* (conc.mem, by identity), the slices of a call's arena are the slices of *)
(* the scratch it holds, and the pool holds identities (conc.free).  A     *)
(* call is taken in the steps acquireScratch, arena and seeding, one       *)
(* iteration of the merge loop at a time, output walk, and the deferred    *)
(* releaseScratch.  The queue and the output slice are local to the call.  *)
(* The EncodeOffline calls of a streaming encoder owned by one goroutine   *)
(* are calls of that goroutine.                                            *)
(***************************************************************************)
MaxGoroutines == 2
MaxConcCalls == 3
MaxConcInputLen == 2

Goroutines == 1..MaxGoroutines

\* the Tokenizers shared: the sample vocabulary with at most
\* MaxConcMerges merges, which decide every pair of a short input
MaxConcMerges == 1

ConcModels ==
    { LoadTokenizerFromFiles(SampleVocab, m) :
        m \in { f \in MergeFiles : Len(f) <= MaxConcMerges } }

NoCall ==
    [pc |-> "idle", sid |-> 0, input |-> << >>, n |-> 0,
     h |-> NewBucketQueue(0), out |-> << >>, finished |-> FALSE]

\* scratchPool.Get that leaves the object it returns in the pool
poolGetKeeps(free, sid) == free

\* scratchPool.Get: the object returned is in the pool no more
poolGet(free, sid) == free \ {sid}

\* scratchPool.Put
poolPut(free, sid) == free \cup {sid}

\* the working state of goroutine g's call: its locals and the slices of
\* the scratch it holds
arenaOf(g) ==
    LET c  == conc.calls[g]
        sc == conc.mem[c.sid]
    IN  [n |-> c.n, tokens |-> sc.tokens, prev |-> sc.prev, next |-> sc.next,
         live |-> sc.live, h |-> c.h]

\* conc after goroutine g's call moved to pc with the working state st
concAfter(g, pc, st) ==
    [conc EXCEPT !.mem[conc.calls[g].sid] = listOf(st),
                 !.calls[g].pc = pc,
                 !.calls[g].n = st.n,
                 !.calls[g].h = st.h]

\* lines 143-153: Get hands out an object of the pool or nil, for which a
\* new scratch is made; prepare resizes its slices
ConcAcquire(g) ==
    \E input \in ByteStrings(MaxConcInputLen) \ {<< >>},
       sid \in conc.free \cup {Len(conc.mem) + 1} :
        LET old == IF sid \in conc.free THEN conc.mem[sid] ELSE EmptyScratch
            sc  == prepare(old, Len(input))
        IN  /\ conc.calls[g].pc = "idle"
            /\ conc.started < MaxConcCalls
            /\ conc' = [conc EXCEPT
                         !.mem = IF sid \in DOMAIN conc.mem
                                   THEN [@ EXCEPT ![sid] = sc]
                                   ELSE Append(@, sc),
                         !.free = poolGet(@, sid),
                         !.started = @ + 1,
                         !.calls[g] = [NoCall EXCEPT !.pc = "init", !.sid = sid,
                                                     !.input = input]]
            /\ op' = IF sid \in conc.free THEN "acquire-pooled" ELSE "acquire-new"
            /\ UNCHANGED <<tok, pool, enc, arg, ret, bufBefore, fed, emitted,
                           bq, mh, ar, log, al, est, se>>

\* lines 19-69: the arena in the slices of the scratch, and the seeding
ConcInit(g) ==
    /\ conc.calls[g].pc = "init"
    /\ LET c  == conc.calls[g]
           st == seedFrom(tok, initArena(tok, c.input, conc.mem[c.sid]), 0)
       IN  conc' = concAfter(g, "loop", st)
    /\ op' = "init"
    /\ UNCHANGED <<tok, pool, enc, arg, ret, bufBefore, fed, emitted,
                   bq, mh, ar, log, al, est, se>>

\* lines 74-126: one iteration of the merge loop
ConcStep(g) ==
    /\ conc.calls[g].pc = "loop"
    /\ LET cur == arenaOf(g)
           p   == BucketQueuePop(cur.h)
           popped == [cur EXCEPT !.h = p.q]
       IN  conc' = IF p.ok THEN concAfter(g, "loop", handleCand(tok, popped, p.c))
                           ELSE concAfter(g, "walk", popped)
    /\ op' = "step"
    /\ UNCHANGED <<tok, pool, enc, arg, ret, bufBefore, fed, emitted,
                   bq, mh, ar, log, al, est, se>>

\* lines 128-133: the returned slice is built before the deferred release
ConcWalk(g) ==
    /\ conc.calls[g].pc = "walk"
    /\ conc' = [conc EXCEPT !.calls[g].pc = "release",
                            !.calls[g].out = outputWalk(arenaOf(g), 0)]
    /\ op' = "walk"
    /\ UNCHANGED <<tok, pool, enc, arg, ret, bufBefore, fed, emitted,
                   bq, mh, ar, log, al, est, se>>

\* lines 17 and 155-157: the deferred releaseScratch, and the return
ConcRelease(g) ==
    /\ conc.calls[g].pc = "release"
    /\ conc' = [conc EXCEPT !.free = poolPut(@, conc.calls[g].sid),
                            !.calls[g].pc = "idle",
                            !.calls[g].finished = TRUE]
    /\ op' = "return"
    /\ ret' = conc.calls[g].out
    /\ arg' = conc.calls[g].input
    /\ UNCHANGED <<tok, pool, enc, bufBefore, fed, emitted, bq, mh, ar, log, al, est, se>>

InitConc ==
    /\ tok \in ConcModels
    /\ pool = EmptyScratch
    /\ enc = [tailReserve |-> 0, buf |-> << >>, outBuf |-> << >>]
    /\ op = "load"
    /\ arg = << >>
    /\ ret = << >>
    /\ bufBefore = << >>
    /\ fed = << >>
    /\ emitted = << >>
    /\ IdleQueues
    /\ ar = [pc |-> "idle"]
    /\ log = << >>
    /\ al = << >>
    /\ IdleStreams
    /\ conc = [mem |-> << >>, free |-> {}, started |-> 0, model |-> tok,
               calls |-> [g \in Goroutines |-> NoCall]]

NextConc ==
    \E g \in Goroutines :
        \/ ConcAcquire(g)
        \/ ConcInit(g)
        \/ ConcStep(g)
        \/ ConcWalk(g)
        \/ ConcRelease(g)

SpecConc == InitConc /\ [][NextConc]_vars

\* the goroutines whose call holds a scratch
InFlight == { g \in Goroutines : conc.calls[g].pc # "idle" }

\* C15: under every interleaving of the calls of the goroutines, no two
\* calls in flight hold the same scratch and no scratch a call holds is in
\* the pool; the Tokenizer is the one that was loaded, none of its tables
\* written; and every call that returned has returned the tokens of
\* EncodeOffline run alone on its input.
C15_ConcurrentCallsIsolated ==
    /\ \A g1 \in InFlight, g2 \in InFlight :
           g1 # g2 => conc.calls[g1].sid # conc.calls[g2].sid
    /\ \A g \in InFlight : conc.calls[g].sid \notin conc.free
    /\ tok = conc.model
    /\ \A g \in Goroutines :
           conc.calls[g].finished =>
               conc.calls[g].out = EncodeOffline(tok, conc.calls[g].input, EmptyScratch)

\* two calls in flight at once, one of them on a scratch taken from the
\* pool, while a call has already returned a merged token
C15_Witness ==
    /\ op = "acquire-pooled"
    /\ Cardinality(InFlight) = 2
    /\ \E g \in InFlight : conc.calls[g].pc = "loop"
    /\ conc.started = 3
    /\ Len(ret) = 1 /\ Len(arg) = 2

(***************************************************************************)
(* SpecLoad: LoadTokenizerFromFiles on a vocabulary file and a merges file *)
(* of up to MaxLoadLines lines, among them well-formed merges, a blank     *)
(* line, a comment, lines of one and of three fields, a line naming a      *)
(* string that is no token, and a line whose merged string is no token.    *)
(***************************************************************************)
MaxLoadLines == 3

LoadLines ==
    LegalMergeLines
        \cup { << >>,                             \* blank
               << <<Hash>>, <<0>> >>,             \* comment
               << <<0>> >>,                       \* one field
               << <<0>>, <<1>>, <<0>> >>,         \* three fields
               << <<0>>, <<1, 1>> >>,             \* "bb" is no token
               << <<1>>, <<1>> >> }               \* "b" "b" merge to no token

RECURSIVE LoadFilesOfLen(_)
LoadFilesOfLen(k) ==
    IF k = 0 THEN { << >> }
    ELSE { Append(f, l) : f \in LoadFilesOfLen(k - 1), l \in LoadLines }

LoadMergeFiles == UNION { LoadFilesOfLen(k) : k \in 0..MaxLoadLines }

InitLoad ==
    /\ tok = Fail("no model loaded")
    /\ pool = EmptyScratch
    /\ enc = [tailReserve |-> 0, buf |-> << >>, outBuf |-> << >>]
    /\ op = "new"
    /\ arg = << >>
    /\ ret = << >>
    /\ bufBefore = << >>
    /\ fed = << >>
    /\ emitted = << >>
    /\ IdleQueues
    /\ IdleCall

DoLoad ==
    /\ op = "new"
    /\ \E vocab \in VocabFiles, mergesLines \in LoadMergeFiles :
        /\ op' = "load"
        /\ arg' = <<vocab, mergesLines>>
        /\ tok' = LoadTokenizerFromFiles(vocab, mergesLines)
        /\ UNCHANGED <<pool, enc, ret, bufBefore, fed, emitted, bq, mh, ar, log, conc, al, est, se>>

NextLoad == DoLoad

SpecLoad == InitLoad /\ [][NextLoad]_vars

\* the lines of a merges file that are neither blank nor a comment, in order
RECURSIVE countedLines(_)
countedLines(lines) ==
    IF lines = << >> THEN << >>
    ELSE LET l == Head(lines) IN
         IF l = << >> \/ l[1][1] = Hash
           THEN countedLines(Tail(lines))
           ELSE <<l>> \o countedLines(Tail(lines))

\* the token strings of a vocabulary file
stringsOf(vocab) == { vocab[k] : k \in 1..Len(vocab) }

\* a counted line that must make the load fail
badLine(vocab, counted, k) ==
    LET l == counted[k] IN
    \/ Len(l) # 2
    \/ l[1] \notin stringsOf(vocab) \/ l[2] \notin stringsOf(vocab)
    \/ \E k0 \in 1..(k - 1) : counted[k0] = l
    \/ l[1] \o l[2] \notin stringsOf(vocab)

\* C16: for a load that returned a Tokenizer, the k-th (zero-based) line of
\* the merges file that is neither blank nor a comment has two fields that
\* are tokens a and b with pairRank[(a, b)] = k, the ranked pairs are those
\* of these lines and no two have the same rank, and pairToken[(a, b)] is a
\* token c with revVocab[c] = revVocab[a] ++ revVocab[b]; a load whose
\* merges file has a counted line of wrong arity, with an unknown token,
\* repeating a pair, or with a merged string that is no token returned an
\* error and no Tokenizer.
C16_LoadedMergeTable ==
    op = "load" /\ arg # << >> /\ Len(arg) = 2 =>
        LET vocab   == arg[1]
            counted == countedLines(arg[2])
            idOf(str) == (CHOOSE k \in 1..Len(vocab) : vocab[k] = str) - 1
        IN  /\ (tok.ok =>
                  /\ \A k \in 1..Len(counted) :
                        /\ Len(counted[k]) = 2
                        /\ counted[k][1] \in stringsOf(vocab)
                        /\ counted[k][2] \in stringsOf(vocab)
                        /\ <<idOf(counted[k][1]), idOf(counted[k][2])>> \in DOMAIN tok.pairRank
                        /\ tok.pairRank[<<idOf(counted[k][1]), idOf(counted[k][2])>>] = k - 1
                  /\ Cardinality(DOMAIN tok.pairRank) = Len(counted)
                  /\ \A p \in DOMAIN tok.pairRank, q \in DOMAIN tok.pairRank :
                        p # q => tok.pairRank[p] # tok.pairRank[q]
                  /\ DOMAIN tok.pairToken = DOMAIN tok.pairRank
                  /\ \A p \in DOMAIN tok.pairRank :
                        /\ tok.pairToken[p] \in DOMAIN tok.revVocab
                        /\ tok.revVocab[tok.pairToken[p]]
                               = tok.revVocab[p[1]] \o tok.revVocab[p[2]])
            /\ ((\E k \in 1..Len(counted) : badLine(vocab, counted, k)) =>
                   ~tok.ok /\ DOMAIN tok = {"ok", "err"})

\* a loaded model whose merges file has a skipped line before two merges,
\* so that ranks and line numbers differ
C16_Witness ==
    /\ op = "load" /\ Len(arg) = 2
    /\ tok.ok
    /\ Len(arg[2]) = 3
    /\ Len(countedLines(arg[2])) = 2
    /\ arg[2][1] # << >> /\ arg[2][1][1][1] = Hash
    /\ \E p \in DOMAIN tok.pairRank : tok.pairRank[p] = 1

(***************************************************************************)
(* SpecAlias: the memory behind the slices a streaming encoder returns.    *)
(* An array is [cap, data], data being the cells written so far from cell  *)
(* 0 on; a slice is [arr, len] with arr = 0 for nil.  enc holds the        *)
(* encoder as before, al.out is the slice st.outBuf, al.handed the slices  *)
(* returned so far with their contents when they were returned.  append    *)
(* writes in place while the capacity suffices and otherwise moves to a    *)
(* new array whose capacity is what is needed or more (the runtime picks   *)
(* it: slack).  The encoders are the NaiveStreamingEncoderState of the     *)
(* default constructor, the one of the constructor with options, and the   *)
(* byte-buffer EncoderState, whose Push and Flush differ only in           *)
(* returning append([]int(nil), st.outBuf...).                             *)
(***************************************************************************)
MaxAliasOps == 3
MaxAliasChunkLen == 2
MaxCapSlack == 1

\* make([]int, 64*1024)
outBufPrealloc == 65536

\* kind: the constructor; the two flags Push and Flush read
Variants ==
    { [kind |-> "default", optOutBufReuse |-> TRUE, optNoCopyReturn |-> TRUE],
      [kind |-> "bytebuf", optOutBufReuse |-> FALSE, optNoCopyReturn |-> FALSE] }
    \cup { [kind |-> "opts", optOutBufReuse |-> r, optNoCopyReturn |-> c] :
             r \in BOOLEAN, c \in BOOLEAN }

NilSlice == [arr |-> 0, len |-> 0]

capOfSlice(mem, sl) == IF sl.arr = 0 THEN 0 ELSE mem[sl.arr].cap

\* the elements of a slice
elemsOf(mem, sl) ==
    IF sl.arr = 0 THEN << >>
    ELSE [k \in 1..sl.len |->
             IF k <= Len(mem[sl.arr].data) THEN mem[sl.arr].data[k] ELSE 0]

\* append(sl, xs...) moving to a new array even when the capacity suffices
appendSliceAlwaysNew(mem, sl, xs, slack) ==
    IF xs = << >> THEN [mem |-> mem, sl |-> sl, wrote |-> {}]
    ELSE [mem   |-> Append(mem, [cap  |-> sl.len + Len(xs) + slack,
                                 data |-> elemsOf(mem, sl) \o xs]),
          sl    |-> [arr |-> Len(mem) + 1, len |-> sl.len + Len(xs)],
          wrote |-> { <<Len(mem) + 1, k>> : k \in sl.len..(sl.len + Len(xs) - 1) }]

\* append(sl, xs...): [mem, sl |-> the slice returned, wrote |-> the cells
\* <<array, index>> written]
appendSlice(mem, sl, xs, slack) ==
    IF xs = << >> THEN [mem |-> mem, sl |-> sl, wrote |-> {}]
    ELSE IF sl.len + Len(xs) <= capOfSlice(mem, sl)
      THEN LET data == mem[sl.arr].data
               kept == SubSeq(data, 1, IF sl.len < Len(data) THEN sl.len ELSE Len(data))
               pad  == [k \in 1..(sl.len - Len(kept)) |-> 0]
               rest == SubSeq(data, sl.len + Len(xs) + 1, Len(data))
           IN  [mem   |-> [mem EXCEPT ![sl.arr].data = kept \o pad \o xs \o rest],
                sl    |-> [sl EXCEPT !.len = @ + Len(xs)],
                wrote |-> { <<sl.arr, k>> : k \in sl.len..(sl.len + Len(xs) - 1) }]
      ELSE [mem   |-> Append(mem, [cap  |-> sl.len + Len(xs) + slack,
                                   data |-> elemsOf(mem, sl) \o xs]),
            sl    |-> [arr |-> Len(mem) + 1, len |-> sl.len + Len(xs)],
            wrote |-> { <<Len(mem) + 1, k>> : k \in sl.len..(sl.len + Len(xs) - 1) }]

\* st.outBuf = append(st.outBuf, id) for each id in turn (emitCommitted)
RECURSIVE appendEach(_, _, _, _)
appendEach(mem, sl, xs, slack) ==
    IF xs = << >> THEN [mem |-> mem, sl |-> sl, wrote |-> {}]
    ELSE LET a == appendSlice(mem, sl, <<Head(xs)>>, slack)
             r == appendEach(a.mem, a.sl, Tail(xs), slack)
         IN  [mem |-> r.mem, sl |-> r.sl, wrote |-> a.wrote \cup r.wrote]

\* what Push and Flush return for the output buffer out: nil when it is
\* empty, the buffer itself with optNoCopyReturn, else a copy in a new
\* array.  [mem, handle |-> the slice returned]
returnOut(variant, mem, out) ==
    IF out.len = 0 THEN [mem |-> mem, handle |-> NilSlice]
    ELSE IF variant.kind # "bytebuf" /\ variant.optNoCopyReturn
      THEN [mem |-> mem, handle |-> out]
    ELSE [mem    |-> Append(mem, [cap |-> out.len, data |-> elemsOf(mem, out)]),
          handle |-> [arr |-> Len(mem) + 1, len |-> out.len]]

\* the slices handed out, after one more call returned handle
handedAfter(handed, mem, handle) ==
    IF handle.arr = 0 THEN handed
    ELSE Append(handed, [arr |-> handle.arr, len |-> handle.len,
                         snap |-> elemsOf(mem, handle)])

\* the byte-buffer encoder (part_005 7-80): its calls of EncodeOffline are
\* those of its own package, which has no scratch pool
byteBufEmitCommitted(t, st) ==
    LET emitLimit == Len(st.buf) - st.tailReserve IN
    IF emitLimit <= 0 THEN st
    ELSE LET emit     == committedPrefix(t, EncodeOfflineHeap(t, st.buf), 0, emitLimit)
             consumed == byteLenOf(t, emit)
         IN  [st EXCEPT !.outBuf = @ \o emit,
                        !.buf = IF consumed > 0 THEN Slice(@, consumed, Len(@)) ELSE @]

ByteBufPush(t, st, chunk) ==
    LET s1 == [st EXCEPT !.outBuf = << >>,
                         !.buf = IF Len(chunk) > 0 THEN @ \o chunk ELSE @]
        e  == byteBufEmitCommitted(t, s1)
    IN  [st |-> e, released |-> << >>, ret |-> e.outBuf]

ByteBufFlush(t, st) ==
    LET s1 == [st EXCEPT !.outBuf = << >>] IN
    IF Len(s1.buf) > 0
      THEN LET out == EncodeOfflineHeap(t, s1.buf) IN
           [st |-> [s1 EXCEPT !.outBuf = @ \o out, !.buf = << >>],
            released |-> << >>, ret |-> out]
      ELSE [st |-> s1, released |-> << >>, ret |-> << >>]

InitAlias ==
    /\ tok \in ConcModels
    /\ pool = EmptyScratch
    /\ enc = NewNaiveStreamingEncoderState(tok)
    /\ op = "new"
    /\ arg = << >>
    /\ ret = << >>
    /\ bufBefore = << >>
    /\ fed = << >>
    /\ emitted = << >>
    /\ IdleQueues
    /\ ar = [pc |-> "idle"]
    /\ log = << >>
    /\ conc = << >>
    /\ IdleStreams
    /\ \E variant \in Variants :
          LET prealloc == variant.kind = "opts" /\ variant.optOutBufReuse IN
          al = [variant |-> variant,
                mem     |-> IF prealloc
                              THEN << [cap |-> outBufPrealloc, data |-> << >>] >>
                              ELSE << >>,
                out     |-> IF prealloc THEN [arr |-> 1, len |-> outBufPrealloc]
                                        ELSE NilSlice,
                handed  |-> << >>,
                ops     |-> 0,
                last    |-> [emits |-> FALSE, wrote |-> {}, capBefore |-> 0,
                             handedBefore |-> 0]]

\* al after a call whose appends to st.outBuf[:0] were a
alAfter(a) ==
    LET r == returnOut(al.variant, a.mem, a.sl) IN
    [al EXCEPT !.mem = r.mem,
               !.out = a.sl,
               !.handed = handedAfter(@, r.mem, r.handle),
               !.ops = @ + 1,
               !.last = [emits |-> a.sl.len > 0, wrote |-> a.wrote,
                         capBefore |-> capOfSlice(al.mem, al.out),
                         handedBefore |-> Len(al.handed)]]

AliasPush ==
    \E chunk \in ByteStrings(MaxAliasChunkLen), slack \in 0..MaxCapSlack :
        LET r == IF al.variant.kind = "bytebuf" THEN ByteBufPush(tok, enc, chunk)
                 ELSE Push(tok, enc, EmptyScratch, chunk)
            a == appendEach(al.mem, [al.out EXCEPT !.len = 0], r.st.outBuf, slack)
        IN  /\ al.ops < MaxAliasOps
            /\ enc' = r.st
            /\ pool' = poolAfter(pool, r.released)
            /\ op' = "push"
            /\ arg' = chunk
            /\ ret' = r.ret
            /\ bufBefore' = enc.buf
            /\ al' = alAfter(a)
            /\ UNCHANGED <<tok, fed, emitted, bq, mh, ar, log, conc, est, se>>

AliasFlush ==
    \E slack \in 0..MaxCapSlack :
        LET r == IF al.variant.kind = "bytebuf" THEN ByteBufFlush(tok, enc)
                 ELSE Flush(tok, enc, EmptyScratch)
            a == appendSlice(al.mem, [al.out EXCEPT !.len = 0], r.st.outBuf, slack)
        IN  /\ al.ops < MaxAliasOps
            /\ enc' = r.st
            /\ pool' = poolAfter(pool, r.released)
            /\ op' = "flush"
            /\ arg' = << >>
            /\ ret' = r.ret
            /\ bufBefore' = enc.buf
            /\ al' = alAfter(a)
            /\ UNCHANGED <<tok, fed, emitted, bq, mh, ar, log, conc, est, se>>

NextAlias == AliasPush \/ AliasFlush

SpecAlias == InitAlias /\ [][NextAlias]_vars

\* the encoders that return the output buffer itself
ReturnsBuffer == al.variant.kind # "bytebuf" /\ al.variant.optNoCopyReturn

\* the last call wrote a cell of the slice handed[k]
wroteInto(k) ==
    \E c \in al.last.wrote :
        c[1] = al.handed[k].arr /\ c[2] < al.handed[k].len

\* the last call emitted tokens, and a slice had been handed out before it
EmitsAfterHanded == al.last.emits /\ al.last.handedBefore > 0

\* a slice handed out by a copying encoder is written by no later call and
\* keeps its contents
CopiesKeepContents ==
    ~ReturnsBuffer =>
        \A k \in 1..Len(al.handed) :
            /\ elemsOf(al.mem, al.handed[k]) = al.handed[k].snap
            /\ (k <= al.last.handedBefore => ~wroteInto(k))
            /\ al.handed[k].arr # al.out.arr

\* a slice returned with optNoCopyReturn is the output buffer itself
ReturnedIsBuffer ==
    ReturnsBuffer /\ al.last.emits =>
        /\ al.handed[Len(al.handed)].arr = al.out.arr
        /\ al.handed[Len(al.handed)].len = al.out.len
        /\ elemsOf(al.mem, al.out) = enc.outBuf

\* C17 as stated: with optNoCopyReturn the slice returned is the output
\* buffer and the next Push or Flush that emits tokens overwrites what the
\* caller was handed; the slices returned by a copying encoder are copies
\* that no later call changes.
C17_NextEmissionOverwrites ==
    op \in {"push", "flush"} =>
        /\ ReturnedIsBuffer
        /\ CopiesKeepContents
        /\ (ReturnsBuffer /\ EmitsAfterHanded => wroteInto(al.last.handedBefore))

\* C17, amended: with optNoCopyReturn the slice returned is the output
\* buffer; the next Push that emits tokens overwrites what the caller was
\* handed, and the next Flush that emits tokens does so exactly when its
\* tokens fit in the capacity of the buffer: a Flush of more tokens appends
\* them to a new array and leaves the caller's slice as it was.  The slices
\* returned by a copying encoder are copies that no later call changes.
C17_NextEmissionOverwritesIfFits ==
    op \in {"push", "flush"} =>
        /\ ReturnedIsBuffer
        /\ CopiesKeepContents
        /\ (ReturnsBuffer /\ EmitsAfterHanded =>
               LET k == al.last.handedBefore IN
               /\ (op = "push" => wroteInto(k))
               /\ (op = "flush" =>
                      (wroteInto(k) <=> Len(ret) <= al.last.capBefore))
               /\ (~wroteInto(k) =>
                      elemsOf(al.mem, al.handed[k]) = al.handed[k].snap))

\* a Flush of the default encoder that emitted within the capacity of the
\* buffer and changed the contents of the slice the caller held
C17_Witness ==
    /\ op = "flush"
    /\ al.variant.kind = "default"
    /\ EmitsAfterHanded
    /\ wroteInto(al.last.handedBefore)
    /\ elemsOf(al.mem, al.handed[al.last.handedBefore])
           # al.handed[al.last.handedBefore].snap

\* C18: the tokens EncodeOffline returned are a fixpoint of the merge
\* table: no two adjacent tokens of the returned sequence are a pair the
\* table holds.
C18_OutputIsFixpoint ==
    tok.ok /\ op = "encode" =>
        \A k \in 1..(Len(ret) - 1) :
            /\ ~Lookup(tok.pairLookup, ret[k], ret[k + 1]).ok
            /\ <<ret[k], ret[k + 1]>> \notin DOMAIN tok.pairRank

\* the total byte length of a token list, by the reverse vocabulary
RECURSIVE bytesIn(_, _)
bytesIn(t, toks) ==
    IF toks = << >> THEN 0
    ELSE Len(t.revVocab[Head(toks)]) + bytesIn(t, Tail(toks))

\* C19: a Push of the buffering streaming encoder returns exactly the
\* longest prefix of EncodeOffline(buffer), the buffer being what was held
\* plus the chunk, whose byte length is at most len(buffer) - tailReserve,
\* and takes exactly the bytes of those tokens off the front of the buffer;
\* a Push that returns a token leaves at least tailReserve bytes buffered,
\* and a Push whose buffer has at most tailReserve bytes returns nothing.
C19_EmitsLongestCommittedPrefix ==
    op = "push" =>
        LET buffer == bufBefore \o arg
            toks   == EncodeOffline(tok, buffer, EmptyScratch)
            limit  == Len(buffer) - enc.tailReserve
            used   == bytesIn(tok, ret)
        IN  /\ enc.tailReserve = tok.MaxTokenByteLen - 1
            /\ IsPrefix(ret, toks)
            /\ (ret # << >> => used <= limit)
            /\ (Len(ret) < Len(toks) =>
                   used + Len(tok.revVocab[toks[Len(ret) + 1]]) > limit)
            /\ enc.buf = SubSeq(buffer, used + 1, Len(buffer))
            /\ Decode(tok, ret) = SubSeq(buffer, 1, used)
            /\ (ret # << >> => Len(enc.buf) >= enc.tailReserve)
            /\ (Len(buffer) <= enc.tailReserve => ret = << >>)

\* a Push on a buffer that was not empty which returned two tokens or more
\* and stopped before a token that did not fit
C19_Witness ==
    /\ op = "push"
    /\ bufBefore # << >>
    /\ Len(ret) >= 2
    /\ Len(ret) < Len(EncodeOffline(tok, bufBefore \o arg, EmptyScratch))
    /\ Len(enc.buf) >= enc.tailReserve
    /\ enc.tailReserve > 0

\* the left slots k < bound of the adjacent live pairs of a list whose
\* tokens are a pair the merge table ranks r
pairsOfRankLeftOf(t, list, r, bound) ==
    { k \in { walkSlots(list, 0)[m] : m \in 1..Len(walkSlots(list, 0)) } :
        /\ k < bound
        /\ list.next[k] # -1
        /\ <<list.tokens[k], list.tokens[list.next[k]]>> \in DOMAIN t.pairRank
        /\ t.pairRank[<<list.tokens[k], list.tokens[list.next[k]]>>] = r }

\* C21: in either encoder, when a merge of rank r is executed at left slot
\* i, the list at that moment has no adjacent live pair of rank r whose
\* left slot is smaller than i: occurrences of a pair are merged leftmost
\* first.
C21_LeftmostFirst ==
    ar.pc # "idle" /\ log.last.kind = "merge" =>
        /\ log.last.c.Rank
               = tok.pairRank[<<log.before.list.tokens[log.last.i],
                                log.before.list.tokens[log.last.j]>>]
        /\ pairsOfRankLeftOf(tok, log.before.list, log.last.c.Rank, log.last.i) = {}

\* a merge of the core encoder at a slot left of another live pair of the
\* same rank, in a run of three equal tokens or more
C21_Witness ==
    /\ ar.pc # "idle" /\ ar.impl = "bucket"
    /\ log.last.kind = "merge"
    /\ ar.st.n >= 3
    /\ \E k \in slotsOf(ar.st.n) :
          /\ k > log.last.i
          /\ k \in pairsOfRankLeftOf(tok, log.before.list, log.last.c.Rank, ar.st.n)
          /\ log.before.list.tokens[k] = log.before.list.tokens[log.last.i]

\* the base token of every byte of an input, in order
baseTokens(t, input) == [k \in 1..Len(input) |-> t.byteToToken[input[k]]]

\* some two adjacent bytes of the input have base tokens the merge table
\* pairs
hasMergeableBasePair(t, input) ==
    \E k \in 1..(Len(input) - 1) :
        <<t.byteToToken[input[k]], t.byteToToken[input[k + 1]]>> \in DOMAIN t.pairRank

\* C22: for an input of n >= 1 bytes EncodeOffline returns n tokens exactly
\* when no two adjacent bytes have base tokens that are a pair of the merge
\* table, and these n tokens are the base tokens of the bytes in order; when
\* there is such a pair it returns fewer than n tokens.
C22_LengthIffNoBasePair ==
    tok.ok /\ op = "encode" /\ Len(arg) >= 1 =>
        /\ (Len(ret) = Len(arg) <=> ~hasMergeableBasePair(tok, arg))
        /\ (~hasMergeableBasePair(tok, arg) => ret = baseTokens(tok, arg))
        /\ (hasMergeableBasePair(tok, arg) => Len(ret) < Len(arg))
        /\ Len(ret) >= 1

\* an input of the greatest length with one mergeable base pair among its
\* adjacent pairs, encoded to one token less
C22_Witness ==
    /\ tok.ok /\ op = "encode"
    /\ Len(arg) = MaxInputLen
    /\ hasMergeableBasePair(tok, arg)
    /\ Len(ret) = Len(arg) - 1
    /\ \E k \in 1..(Len(arg) - 1) :
          <<tok.byteToToken[arg[k]], tok.byteToToken[arg[k + 1]]>> \notin DOMAIN tok.pairRank

\* C23 as stated, for the heap variant: for every merge (a, b) -> c of the
\* table the bytes of a followed by the bytes of b encode to [c], and for
\* every chain (a, b) -> x, (x, c) -> y the bytes of a, b and c encode to [y].
C23_MergesEncodeToOneToken ==
    ar.pc = "done" /\ ar.impl = "heap" =>
        /\ \A p \in DOMAIN tok.pairToken :
               ar.input = tok.revVocab[p[1]] \o tok.revVocab[p[2]]
                   => ar.out = <<tok.pairToken[p]>>
        /\ \A p \in DOMAIN tok.pairToken, q \in DOMAIN tok.pairToken :
               /\ q[1] = tok.pairToken[p]
               /\ ar.input = tok.revVocab[p[1]] \o tok.revVocab[p[2]] \o tok.revVocab[q[2]]
               => ar.out = <<tok.pairToken[q]>>

IsSuffix(p, q) == Len(p) <= Len(q) /\ SubSeq(q, Len(q) - Len(p) + 1, Len(q)) = p

\* the ranks of the merges the heap variant executes from state st on
RECURSIVE heapMergeRanks(_, _)
heapMergeRanks(t, st) ==
    IF MergeHeapLen(st.h) = 0 THEN {}
    ELSE LET p      == MergeHeapPop(st.h)
             popped == [st EXCEPT !.h = p.q]
             after  == heapHandleCand(t, popped, p.c)
         IN  (IF listOf(after) # listOf(popped) THEN {p.c.Rank} ELSE {})
                 \cup heapMergeRanks(t, after)

\* the ranks of the merges of EncodeOffline(input), heap variant
mergeRanksOf(t, input) ==
    IF Len(input) = 0 THEN {}
    ELSE heapMergeRanks(t, heapSeedFrom(t, heapInitArena(t, input), 0))

\* the pairs of the table, other than p itself, that can lie across the
\* boundary between the bytes of p's operands: a token that ends the bytes
\* of p[1] followed by a token that begins the bytes of p[2]
straddlers(t, p) ==
    { q \in DOMAIN t.pairRank :
        /\ q # p
        /\ IsSuffix(t.revVocab[q[1]], t.revVocab[p[1]])
        /\ IsPrefix(t.revVocab[q[2]], t.revVocab[p[2]]) }

\* each operand of p encodes, on its own, to itself, and no straddling pair
\* is ranked below a merge made for the left operand, or not above a merge
\* made for the right operand
undisturbed(t, p) ==
    /\ EncodeOfflineHeap(t, t.revVocab[p[1]]) = <<p[1]>>
    /\ EncodeOfflineHeap(t, t.revVocab[p[2]]) = <<p[2]>>
    /\ \A q \in straddlers(t, p) :
           /\ \A r \in mergeRanksOf(t, t.revVocab[p[1]]) : t.pairRank[q] >= r
           /\ \A r \in mergeRanksOf(t, t.revVocab[p[2]]) : t.pairRank[q] > r

\* C23, amended, for the heap variant: for every merge (a, b) -> c of the
\* table such that the bytes of a alone encode to [a] and the bytes of b
\* alone to [b], and such that no other pair (s, p) of the table, s ending
\* the bytes of a and p beginning the bytes of b, is ranked below a merge the
\* encoder makes on the bytes of a alone, or below or equal to a merge it
\* makes on the bytes of b alone, the bytes of a followed by the bytes of b
\* encode to [c]; and for every chain (a, b) -> x, (x, c) -> y whose second
\* merge (x, c) meets these conditions, the bytes of a, b and c encode to [y].
C23_UndisturbedMergesEncodeToOneToken ==
    ar.pc = "done" /\ ar.impl = "heap" =>
        /\ \A p \in DOMAIN tok.pairToken :
               /\ undisturbed(tok, p)
               /\ ar.input = tok.revVocab[p[1]] \o tok.revVocab[p[2]]
               => ar.out = <<tok.pairToken[p]>>
        /\ \A p \in DOMAIN tok.pairToken, q \in DOMAIN tok.pairToken :
               /\ q[1] = tok.pairToken[p]
               /\ undisturbed(tok, q)
               /\ ar.input = tok.revVocab[p[1]] \o tok.revVocab[p[2]] \o tok.revVocab[q[2]]
               => ar.out = <<tok.pairToken[q]>>

\* a finished call of the heap variant on the bytes of a merge with an
\* operand of more than one byte, in a table that has a straddling pair,
\* returning the one token
C23_Witness ==
    /\ ar.pc = "done" /\ ar.impl = "heap"
    /\ \E p \in DOMAIN tok.pairToken :
          /\ undisturbed(tok, p)
          /\ straddlers(tok, p) # {}
          /\ mergeRanksOf(tok, tok.revVocab[p[1]]) \cup mergeRanksOf(tok, tok.revVocab[p[2]]) # {}
          /\ ar.input = tok.revVocab[p[1]] \o tok.revVocab[p[2]]
          /\ ar.out = <<tok.pairToken[p]>>

(***************************************************************************)
(* MergeHeap.Pop against the candidates the heap held before the call.     *)
(***************************************************************************)
\* how many slots of items hold candidate c
occurrences(items, c) == Cardinality({ i \in DOMAIN items : items[i] = c })

\* (Rank, Pos) of a precedes or equals (Rank, Pos) of b
rankPosLeq(a, b) == a.Rank < b.Rank \/ (a.Rank = b.Rank /\ a.Pos <= b.Pos)

\* C24: after any sequence of Push and Pop calls on the MergeHeap, Pop
\* returns false exactly when the heap holds no candidate (and then leaves
\* it alone); otherwise it returns a held candidate that no held candidate
\* precedes under (Rank ascending, Pos ascending), and removes exactly one
\* occurrence of that candidate, so Len decreases by one and every other
\* candidate is still held.
C24_HeapPopReturnsMinimum ==
    [][ op' = "qpop" =>
          LET r == ret'[2] IN
          /\ r.ok <=> MergeHeapLen(mh) > 0
          /\ ~r.ok => mh' = mh
          /\ r.ok =>
                /\ \E i \in DOMAIN mh.items : mh.items[i] = r.c
                /\ \A i \in DOMAIN mh.items : rankPosLeq(r.c, mh.items[i])
                /\ MergeHeapLen(mh') = MergeHeapLen(mh) - 1
                /\ \A c \in QueueCands :
                       occurrences(mh'.items, c) =
                           occurrences(mh.items, c) - (IF c = r.c THEN 1 ELSE 0)
      ]_vars

\* a Pop returned the second-pushed of two candidates of one rank, the one
\* with the smaller Pos, and left a candidate that follows it in the heap
C24_Witness ==
    /\ op = "qpop"
    /\ ret[2].ok
    /\ MergeHeapLen(mh) >= 2
    /\ \E i \in DOMAIN mh.items :
           mh.items[i].Rank = ret[2].c.Rank /\ mh.items[i].Pos > ret[2].c.Pos
    /\ \E i \in DOMAIN mh.items : mh.items[i].Rank > ret[2].c.Rank

(***************************************************************************)
(* The rank-bucketed mergeHeap of the incremental streaming encoder.       *)
(* buckets is the Go slice h.buckets, bucket rank being buckets[rank + 1]. *)
(***************************************************************************)
mergeCandidate(leftIndex, rightIndex, rank, liveLeft, liveRight) ==
    [leftIndex |-> leftIndex, rightIndex |-> rightIndex, rank |-> rank,
     liveLeft |-> liveLeft, liveRight |-> liveRight]

\* the zero mergeCandidate{}
noMergeCandidate == mergeCandidate(0, 0, 0, 0, 0)

newMergeHeap == [buckets |-> << >>, current |-> 0, totalCount |-> 0]

newMergeHeapWithMaxRank(maxRank) ==
    [buckets |-> [r \in 1..(maxRank + 1) |-> << >>], current |-> 0, totalCount |-> 0]

\* make([][]mergeCandidate, rank+1) and copy: the old buckets, then empty ones
growBuckets(buckets, rank) ==
    IF rank >= Len(buckets)
        THEN [r \in 1..(rank + 1) |-> IF r <= Len(buckets) THEN buckets[r] ELSE << >>]
        ELSE buckets

mergeHeapPush(h, c) ==
    LET grown == growBuckets(h.buckets, c.rank)
        total == h.totalCount + 1
    IN  [buckets    |-> [grown EXCEPT ![c.rank + 1] = Append(@, c)],
         current    |-> IF total = 1 \/ c.rank < h.current THEN c.rank ELSE h.current,
         totalCount |-> total]

RECURSIVE skipEmptyFrom(_, _)
skipEmptyFrom(buckets, cur) ==
    IF cur < Len(buckets) /\ Len(buckets[cur + 1]) = 0
        THEN skipEmptyFrom(buckets, cur + 1)
        ELSE cur

mergeHeapPop(h) ==
    IF h.totalCount = 0 THEN [q |-> h, c |-> noMergeCandidate, ok |-> FALSE]
    ELSE LET cur == skipEmptyFrom(h.buckets, h.current) IN
         IF cur >= Len(h.buckets)
             THEN [q |-> [h EXCEPT !.current = 0], c |-> noMergeCandidate, ok |-> FALSE]
             ELSE [q  |-> [buckets    |-> [h.buckets EXCEPT ![cur + 1] = Tail(@)],
                           current    |-> cur,
                           totalCount |-> h.totalCount - 1],
                   c  |-> Head(h.buckets[cur + 1]),
                   ok |-> TRUE]

mergeHeapEmpty(h) == h.totalCount = 0

(***************************************************************************)
(* SpecBuckets: every sequence of Push and Pop calls on one mergeHeap,     *)
(* built by either constructor, holding up to MaxQueueLen candidates of    *)
(* ranks 0..MaxQueueRank and left indexes 0..MaxQueuePos.  se.heap is the  *)
(* heap; ret holds what the last Pop returned.                             *)
(***************************************************************************)
BucketCands ==
    { mergeCandidate(left, left + 1, rank, 1, 1) :
          left \in 0..MaxQueuePos, rank \in 0..MaxQueueRank }

InitBuckets ==
    /\ tok = Fail("no model loaded")
    /\ pool = EmptyScratch
    /\ enc = [tailReserve |-> 0, buf |-> << >>, outBuf |-> << >>]
    /\ op = "new"
    /\ arg = << >>
    /\ ret = << >>
    /\ bufBefore = << >>
    /\ fed = << >>
    /\ emitted = << >>
    /\ IdleQueues
    /\ ar = [pc |-> "idle"]
    /\ log = << >>
    /\ conc = << >>
    /\ al = << >>
    /\ est = << >>
    /\ se \in { [heap |-> newMergeHeap],
                [heap |-> newMergeHeapWithMaxRank(MaxQueueRank)] }

BucketPush ==
    \E c \in BucketCands :
        /\ se.heap.totalCount < MaxQueueLen
        /\ se' = [se EXCEPT !.heap = mergeHeapPush(se.heap, c)]
        /\ op' = "hpush"
        /\ arg' = <<c>>
        /\ ret' = << >>
        /\ UNCHANGED <<tok, pool, enc, bufBefore, fed, emitted, bq, mh, ar, log, conc, al, est>>

BucketPop ==
    LET p == mergeHeapPop(se.heap) IN
        /\ se' = [se EXCEPT !.heap = p.q]
        /\ op' = "hpop"
        /\ arg' = << >>
        /\ ret' = [c |-> p.c, ok |-> p.ok]
        /\ UNCHANGED <<tok, pool, enc, bufBefore, fed, emitted, bq, mh, ar, log, conc, al, est>>

NextBuckets == BucketPush \/ BucketPop

SpecBuckets == InitBuckets /\ [][NextBuckets]_vars

\* the candidates the heap holds
heldIn(h) ==
    { h.buckets[r][k] : <<r, k>> \in
          { x \in (DOMAIN h.buckets) \X (1..MaxQueueLen) : x[2] <= Len(h.buckets[x[1]]) } }

\* C25: after any sequence of Push and Pop calls on the rank-bucketed
\* mergeHeap, Pop returns the held candidate that is minimal under (rank
\* ascending, leftIndex ascending): of the lowest rank present and, among the
\* candidates of that rank, of the smallest leftIndex, in whatever order they
\* were pushed.
C25_BucketPopReturnsMinimum ==
    [][ op' = "hpop" /\ ret'.ok =>
          /\ ret'.c \in heldIn(se.heap)
          /\ \A x \in heldIn(se.heap) :
                 \/ ret'.c.rank < x.rank
                 \/ ret'.c.rank = x.rank /\ ret'.c.leftIndex <= x.leftIndex
      ]_vars

(***************************************************************************)
(* The node-list streaming encoder, EncoderState.  nodes is the Go slice   *)
(* st.nodes, node i of the slice being nodes[i + 1]; left and right hold   *)
(* slice indexes or -1.  heap is the candidate queue ordered by (Rank,     *)
(* Pos).                                                                   *)
(***************************************************************************)
encNode(id, left, right, ver, byteLen, dead) ==
    [id |-> id, left |-> left, right |-> right, ver |-> ver, byteLen |-> byteLen,
     dead |-> dead]

NewEncoderState(t) ==
    [lMax |-> t.MaxTokenByteLen, head |-> 0, sealIdx |-> 0, nodes |-> << >>,
     liveVersion |-> 0, outBuf |-> << >>,
     heap |-> [items |-> << >>, preAllocated |-> FALSE, initialCapacity |-> 0]]

\* st.liveVersion++; the version returned is the new st.liveVersion
bump(s) == [s EXCEPT !.liveVersion = @ + 1]

enqueuePair(t, s, l, r) ==
    IF l < 0 \/ r < 0 THEN s
    ELSE LET pair == <<s.nodes[l + 1].id, s.nodes[r + 1].id>> IN
         IF pair \notin DOMAIN t.pairRank THEN s
         ELSE [s EXCEPT !.heap =
                  MergeHeapPush(@, MergeCand(t.pairRank[pair], l, pair[1], pair[2],
                                             s.nodes[l + 1].ver, s.nodes[r + 1].ver))]

appendByte(t, s, b) ==
    LET i    == Len(s.nodes)
        left == i - 1
        s1   == [s EXCEPT !.nodes =
                    Append(@, encNode(t.byteToToken[b], left, -1, s.liveVersion, 1, FALSE))]
    IN  IF left >= 0
            THEN enqueuePair(t, [s1 EXCEPT !.nodes[left + 1].right = i], left, i)
            ELSE s1

\* the statements of mergeAt in their order; L and R are &st.nodes[l] and
\* &st.nodes[r]
mergeAt(t, s, l, r, mergedID) ==
    LET s1 == [s EXCEPT !.nodes[l + 1].id = mergedID]
        s2 == [s1 EXCEPT !.nodes[l + 1].byteLen = @ + s1.nodes[r + 1].byteLen]
        b3 == bump(s2)
        s3 == [b3 EXCEPT !.nodes[l + 1].ver = b3.liveVersion]
        nr == s3.nodes[r + 1].right
        s4 == [s3 EXCEPT !.nodes[l + 1].right = nr]
        s5 == IF nr >= 0
                THEN LET a  == [s4 EXCEPT !.nodes[nr + 1].left = l]
                         bb == bump(a)
                         c  == [bb EXCEPT !.nodes[nr + 1].ver = bb.liveVersion]
                         d  == [c EXCEPT !.nodes[nr + 1].right = nr]
                     IN  enqueuePair(t, d, l, nr)
                ELSE s4
        ll == s5.nodes[l + 1].left
        s6 == IF ll >= 0
                THEN LET bb == bump(s5)
                         c  == [bb EXCEPT !.nodes[ll + 1].ver = bb.liveVersion]
                     IN  enqueuePair(t, c, ll, l)
                ELSE s5
    IN  [s6 EXCEPT !.nodes[r + 1].dead = TRUE]

RECURSIVE lastLiveFrom(_, _)
lastLiveFrom(s, i) ==
    IF i >= s.sealIdx
        THEN IF ~s.nodes[i + 1].dead THEN i ELSE lastLiveFrom(s, i - 1)
        ELSE -1

lastLive(s) == lastLiveFrom(s, Len(s.nodes) - 1)

\* the loop of tailStartIdx: the index i it ends with
RECURSIVE tailWalk(_, _, _)
tailWalk(s, i, sum) ==
    IF i >= s.sealIdx
        THEN LET n == s.nodes[i + 1] IN
             IF ~n.dead /\ sum + n.byteLen > s.lMax - 1 THEN i
             ELSE tailWalk(s, n.left, IF n.dead THEN sum ELSE sum + n.byteLen)
        ELSE i

tailStartIdx(s) ==
    LET last == lastLive(s) IN
    IF last = -1 THEN s.sealIdx
    ELSE LET i == tailWalk(s, last, 0) IN
         IF i < s.sealIdx THEN s.sealIdx ELSE s.nodes[i + 1].right

RECURSIVE sealUpTo(_, _)
sealUpTo(s, tailStart) ==
    IF s.sealIdx >= 0 /\ s.sealIdx < tailStart
        THEN LET n == s.nodes[s.sealIdx + 1] IN
             sealUpTo([s EXCEPT !.outBuf  = IF n.dead THEN @ ELSE Append(@, n.id),
                                !.sealIdx = @ + 1,
                                !.head    = s.sealIdx + 1],
                      tailStart)
        ELSE s

sealCommitted(s) == sealUpTo(s, tailStartIdx(s))

RECURSIVE appendBytes(_, _, _)
appendBytes(t, s, chunk) ==
    IF chunk = << >> THEN s
    ELSE appendBytes(t, appendByte(t, s, Head(chunk)), Tail(chunk))

\* the loop over the heap in Push: the state when the heap is empty and the
\* number of mergeAt calls made
RECURSIVE drainHeap(_, _, _)
drainHeap(t, s, merges) ==
    IF MergeHeapLen(s.heap) = 0 THEN [st |-> s, merges |-> merges]
    ELSE LET p    == MergeHeapPop(s.heap)
             cand == p.c
             s1   == [s EXCEPT !.heap = p.q]
             l    == cand.Pos
         IN  IF l < 0 \/ l >= Len(s1.nodes) THEN drainHeap(t, s1, merges)
             ELSE LET r == s1.nodes[l + 1].right IN
                  IF r < 0 THEN drainHeap(t, s1, merges)
                  ELSE IF \/ s1.nodes[l + 1].ver # cand.VerL
                          \/ s1.nodes[r + 1].ver # cand.VerR
                          \/ s1.nodes[l + 1].id # cand.LeftToken
                          \/ s1.nodes[r + 1].id # cand.RightToken
                          \/ <<s1.nodes[l + 1].id, s1.nodes[r + 1].id>>
                                 \notin DOMAIN t.pairToken
                      THEN drainHeap(t, s1, merges)
                      ELSE drainHeap(t,
                               mergeAt(t, s1, l, r,
                                       t.pairToken[<<s1.nodes[l + 1].id,
                                                     s1.nodes[r + 1].id>>]),
                               merges + 1)

EncoderStatePush(t, s, chunk) ==
    LET appended == appendBytes(t, [s EXCEPT !.outBuf = << >>], chunk)
        drained  == drainHeap(t, appended, 0)
        sealed   == sealCommitted(drained.st)
    IN  [st |-> sealed, ret |-> sealed.outBuf, merges |-> drained.merges]

\* the loop of Flush, for i := st.head; i <= len(st.nodes); i++: what it has
\* appended when it ends or when st.nodes[i] is out of range
RECURSIVE flushWalk(_, _, _)
flushWalk(s, i, out) ==
    IF i <= Len(s.nodes)
        THEN IF i >= Len(s.nodes) THEN [out |-> out, panicked |-> TRUE]
             ELSE flushWalk(s, i + 1,
                            IF s.nodes[i + 1].dead THEN out
                                                   ELSE Append(out, s.nodes[i + 1].id))
        ELSE [out |-> out, panicked |-> FALSE]

\* out := st.outBuf[:0] shares the array of st.outBuf, whose first elements
\* the appends of the loop overwrite
EncoderStateFlush(s) ==
    LET w == flushWalk(s, s.head, << >>) IN
    IF w.panicked
        THEN [st  |-> [s EXCEPT !.outBuf =
                          [k \in DOMAIN s.outBuf |->
                              IF k <= Len(w.out) THEN w.out[k] ELSE s.outBuf[k]]],
              ret |-> Panic]
        ELSE [st  |-> [s EXCEPT !.nodes = << >>, !.head = 0, !.sealIdx = 0,
                                !.heap = MergeHeapReset(s.heap)],
              ret |-> w.out]

(***************************************************************************)
(* SpecNodes: one node-list EncoderState of a loaded model, fed chunks of  *)
(* up to MaxNodeChunkLen bytes, MaxNodeStreamLen bytes in all, and         *)
(* flushed.  est is the encoder; fed and emitted are the bytes taken in    *)
(* and the tokens returned so far; log holds the encoder as it was before  *)
(* the last call and the number of merges the call made.  A panic ends     *)
(* the run.                                                                *)
(***************************************************************************)
MaxNodeStreamLen == 4
MaxNodeChunkLen == 3

InitNodes ==
    /\ tok \in LoadedModels
    /\ pool = EmptyScratch
    /\ enc = [tailReserve |-> 0, buf |-> << >>, outBuf |-> << >>]
    /\ op = "new"
    /\ arg = << >>
    /\ ret = << >>
    /\ bufBefore = << >>
    /\ fed = << >>
    /\ emitted = << >>
    /\ IdleQueues
    /\ ar = [pc |-> "idle"]
    /\ log = [before |-> NewEncoderState(tok), merges |-> 0]
    /\ conc = << >>
    /\ al = << >>
    /\ est = NewEncoderState(tok)
    /\ se = << >>

NodePush ==
    /\ ret # Panic
    /\ \E chunk \in ByteStrings(MaxNodeChunkLen) :
        LET r == EncoderStatePush(tok, est, chunk) IN
        /\ Len(fed) + Len(chunk) <= MaxNodeStreamLen
        /\ est' = r.st
        /\ op' = "npush"
        /\ arg' = chunk
        /\ ret' = r.ret
        /\ fed' = fed \o chunk
        /\ emitted' = emitted \o r.ret
        /\ log' = [before |-> est, merges |-> r.merges]
        /\ UNCHANGED <<tok, pool, enc, bufBefore, bq, mh, ar, conc, al, se>>

NodeFlush ==
    /\ ret # Panic
    /\ LET r == EncoderStateFlush(est) IN
        /\ est' = r.st
        /\ op' = "nflush"
        /\ arg' = << >>
        /\ ret' = r.ret
        /\ emitted' = IF r.ret = Panic THEN emitted ELSE emitted \o r.ret
        /\ fed' = fed
        /\ log' = [before |-> est, merges |-> 0]
        /\ UNCHANGED <<tok, pool, enc, bufBefore, bq, mh, ar, conc, al, se>>

NextNodes == NodePush \/ NodeFlush

SpecNodes == InitNodes /\ [][NextNodes]_vars

\* the indexes of the nodes that are not dead, and of those not yet sealed
liveNodes(s) == { i \in 0..(Len(s.nodes) - 1) : ~s.nodes[i + 1].dead }
unsealedNodes(s) == { i \in liveNodes(s) : i >= s.sealIdx }

\* x and y are live and no live node lies between them in the node array
neighbours(s, x, y) ==
    /\ x \in liveNodes(s) /\ y \in liveNodes(s) /\ x < y
    /\ \A z \in liveNodes(s) : ~(x < z /\ z < y)

\* C26: when Push of the node-list EncoderState returns, the queue has been
\* drained like the offline merger's: no two adjacent live nodes that are
\* not yet sealed hold a pair of tokens that is in the merge table (no
\* applicable candidate of a neighbour of a merge was invalidated without
\* being enqueued again).
C26_PushLeavesNoMergeablePair ==
    op = "npush" =>
        \A x \in unsealedNodes(est), y \in unsealedNodes(est) :
            neighbours(est, x, y) =>
                <<est.nodes[x + 1].id, est.nodes[y + 1].id>> \notin DOMAIN tok.pairToken

\* the nodes met from node i on by following right, at most fuel of them
RECURSIVE rightWalk(_, _, _)
rightWalk(s, i, fuel) ==
    IF i < 0 \/ i >= Len(s.nodes) \/ fuel = 0 THEN << >>
    ELSE <<i>> \o rightWalk(s, s.nodes[i + 1].right, fuel - 1)

\* C27: after every mergeAt of the node-list EncoderState (here: after the
\* last one of a Push) the live nodes form a well-formed doubly linked
\* list: the right neighbour y >= 0 of a live node x differs from x, is
\* live and has x as its left neighbour; the walk to the right from head
\* visits every live node from head on exactly once and ends at -1; and no
\* absorbed node is on it.
C27_ListWellFormedAfterMerge ==
    op = "npush" /\ log.merges > 0 =>
        LET walk == rightWalk(est, est.head, Len(est.nodes) + 1) IN
        /\ \A x \in liveNodes(est) :
               LET y == est.nodes[x + 1].right IN
               y >= 0 => y # x /\ y \in liveNodes(est) /\ est.nodes[y + 1].left = x
        /\ Len(walk) <= Len(est.nodes)
        /\ \A j \in DOMAIN walk, k \in DOMAIN walk : j # k => walk[j] # walk[k]
        /\ { walk[j] : j \in DOMAIN walk } = { x \in liveNodes(est) : x >= est.head }

\* the byteLen of the live nodes at index i and above
RECURSIVE byteLenFrom(_, _)
byteLenFrom(s, i) ==
    IF i >= Len(s.nodes) THEN 0
    ELSE (IF s.nodes[i + 1].dead THEN 0 ELSE s.nodes[i + 1].byteLen) + byteLenFrom(s, i + 1)

\* C28: the commit phase of the node-list EncoderState emits a token only
\* if the tokens left uncommitted total at least MaxTokenByteLen - 1 bytes:
\* after a Push that returned at least one token the byteLen of the live
\* nodes at index >= sealIdx sums to at least MaxTokenByteLen - 1.
C28_TailKeepsReserve ==
    op = "npush" /\ ret # << >> =>
        byteLenFrom(est, est.sealIdx) >= tok.MaxTokenByteLen - 1

\* the ids of the nodes of s that are not dead, from index i on
RECURSIVE liveIdsFrom(_, _)
liveIdsFrom(s, i) ==
    IF i >= Len(s.nodes) THEN << >>
    ELSE (IF s.nodes[i + 1].dead THEN << >> ELSE <<s.nodes[i + 1].id>>)
             \o liveIdsFrom(s, i + 1)

\* C29: Flush of the node-list EncoderState, after any sequence of Pushes
\* or none, does not fail (no index outside the node array), returns the
\* ids of the nodes from head on that are not dead, in list order, and
\* leaves nodes, head, sealIdx and the heap reset.
C29_FlushReturnsRestAndResets ==
    op = "nflush" =>
        /\ ret # Panic
        /\ ret = liveIdsFrom(log.before, log.before.head)
        /\ est.nodes = << >> /\ est.head = 0 /\ est.sealIdx = 0
        /\ MergeHeapLen(est.heap) = 0

(***************************************************************************)
(* The token list of the incremental streaming encoder, StreamingEncoderV2 *)
(* and its commit phase.  tokens, prev, next and live are the Go slices,   *)
(* slot i being [i + 1]; head and tail are slots or -1.  The list is       *)
(* built as the tests build it, by newSyntheticList, which gives token i   *)
(* the byte length lens[i].  commitPrefix follows the stable-prefix rule   *)
(* as its tests pin it down: a token is emitted while more than            *)
(* tailReserve bytes lie behind it.                                        *)
(***************************************************************************)
NewStreamingEncoderV2 ==
    [tokens |-> << >>, prev |-> << >>, next |-> << >>, live |-> << >>, liveGen |-> 1,
     head |-> -1, tail |-> -1, tailReserve |-> 0, syntheticLengths |-> << >>]

newSyntheticList(e, lens) ==
    LET n          == Len(lens)
        startIndex == Len(e.tokens)
    IN  [e EXCEPT
            !.tokens  = @ \o [i \in 1..n |-> i - 1],
            !.prev    = @ \o [i \in 1..n |-> IF i = 1 THEN -1 ELSE startIndex + i - 2],
            !.next    = @ \o [i \in 1..n |-> IF i = n THEN -1 ELSE startIndex + i],
            !.live    = @ \o [i \in 1..n |-> e.liveGen + i],
            !.liveGen = @ + n,
            !.syntheticLengths =
                [id \in (DOMAIN @) \cup (0..(n - 1)) |->
                    IF id < n THEN lens[id + 1] ELSE @[id]],
            !.head    = startIndex,
            !.tail    = startIndex + n - 1]

\* the byte length of the token in slot i
tokenByteLen(e, i) == e.syntheticLengths[e.tokens[i + 1]]

\* the bytes of the tokens from slot i to the end of the list
RECURSIVE bytesFrom(_, _)
bytesFrom(e, i) ==
    IF i = -1 THEN 0 ELSE tokenByteLen(e, i) + bytesFrom(e, e.next[i + 1])

\* commitPrefix emitting a token while at least tailReserve bytes lie
\* behind it
RECURSIVE commitPrefixAtLeast(_, _)
commitPrefixAtLeast(e, out) ==
    IF e.head # -1 /\ bytesFrom(e, e.next[e.head + 1]) >= e.tailReserve
        THEN LET nh == e.next[e.head + 1] IN
             commitPrefixAtLeast(
                 [e EXCEPT !.head = nh,
                           !.prev = IF nh = -1 THEN @ ELSE [@ EXCEPT ![nh + 1] = -1]],
                 Append(out, e.tokens[e.head + 1]))
        ELSE [se |-> e, out |-> out]

RECURSIVE commitPrefix(_, _)
commitPrefix(e, out) ==
    IF e.head # -1 /\ bytesFrom(e, e.next[e.head + 1]) > e.tailReserve
        THEN LET nh == e.next[e.head + 1] IN
             commitPrefix(
                 [e EXCEPT !.head = nh,
                           !.prev = IF nh = -1 THEN @ ELSE [@ EXCEPT ![nh + 1] = -1]],
                 Append(out, e.tokens[e.head + 1]))
        ELSE [se |-> e, out |-> out]

(***************************************************************************)
(* SpecCommit: a StreamingEncoderV2 given synthetic lists of up to         *)
(* MaxSynTokens tokens in all, of 1..MaxSynByteLen bytes each, and a       *)
(* tailReserve of 0..MaxTailReserve, and committed.  log holds the encoder *)
(* as it was before the last call; ret what commitPrefix appended.         *)
(***************************************************************************)
MaxSynTokens == 5
MaxSynByteLen == 2
MaxTailReserve == 2

InitCommit ==
    /\ tok = Fail("no model loaded")
    /\ pool = EmptyScratch
    /\ enc = [tailReserve |-> 0, buf |-> << >>, outBuf |-> << >>]
    /\ op = "new"
    /\ arg = << >>
    /\ ret = << >>
    /\ bufBefore = << >>
    /\ fed = << >>
    /\ emitted = << >>
    /\ IdleQueues
    /\ ar = [pc |-> "idle"]
    /\ log = [before |-> NewStreamingEncoderV2]
    /\ conc = << >>
    /\ al = << >>
    /\ est = << >>
    /\ se = NewStreamingEncoderV2

SyntheticList ==
    \E n \in 1..MaxSynTokens, reserve \in 0..MaxTailReserve :
        /\ Len(se.tokens) + n <= MaxSynTokens
        /\ \E lens \in [1..n -> 1..MaxSynByteLen] :
            /\ se' = [newSyntheticList(se, lens) EXCEPT !.tailReserve = reserve]
            /\ op' = "list"
            /\ arg' = lens
            /\ ret' = << >>
            /\ log' = [before |-> se]
            /\ UNCHANGED <<tok, pool, enc, bufBefore, fed, emitted, bq, mh, ar, conc, al, est>>

CommitPrefix ==
    LET r == commitPrefix(se, << >>) IN
    /\ se.head # -1
    /\ se' = r.se
    /\ op' = "commit"
    /\ arg' = << >>
    /\ ret' = r.out
    /\ log' = [before |-> se]
    /\ UNCHANGED <<tok, pool, enc, bufBefore, fed, emitted, bq, mh, ar, conc, al, est>>

NextCommit == SyntheticList \/ CommitPrefix

SpecCommit == InitCommit /\ [][NextCommit]_vars

\* the slots of the list of e, from its head, and the byte lengths of
\* their tokens
RECURSIVE slotsFrom(_, _)
slotsFrom(e, i) == IF i = -1 THEN << >> ELSE <<i>> \o slotsFrom(e, e.next[i + 1])

headSlots(e) == slotsFrom(e, e.head)

\* the sum of the elements k..Len(q) of a sequence of numbers
RECURSIVE sumFrom(_, _)
sumFrom(q, k) == IF k > Len(q) THEN 0 ELSE q[k] + sumFrom(q, k + 1)

\* C30: commitPrefix appends to its output, in list order, exactly the
\* leading tokens behind which more than tailReserve bytes lie, moves head
\* to the first token it did not emit and never empties the list (head is
\* not -1 afterwards, with tailReserve 0 too); with tokens of one byte and
\* tailReserve 2 it commits 0 of 3, 1 of 4 and 2 of 5 tokens, with
\* tailReserve 0 it commits 2 of 3.
C30_CommitsStablePrefix ==
    op = "commit" =>
        LET b     == log.before
            slots == headSlots(b)
            lens  == [j \in DOMAIN slots |-> tokenByteLen(b, slots[j])]
            n     == Len(slots)
            unit  == \A j \in DOMAIN lens : lens[j] = 1
            k     == Len(ret)
        IN  /\ k < n
            /\ \A j \in 1..n : j <= k <=> sumFrom(lens, j + 1) > b.tailReserve
            /\ ret = [j \in 1..k |-> b.tokens[slots[j] + 1]]
            /\ se.head = slots[k + 1]
            /\ se.head # -1
            /\ unit /\ b.tailReserve = 2 /\ n = 3 => k = 0
            /\ unit /\ b.tailReserve = 2 /\ n = 4 => k = 1
            /\ unit /\ b.tailReserve = 2 /\ n = 5 => k = 2
            /\ unit /\ b.tailReserve = 0 /\ n = 3 => k = 2

\* five one-byte tokens with tailReserve 2: tokens 0 and 1 were committed
\* and head is the third slot
C30_Witness ==
    /\ op = "commit"
    /\ Len(headSlots(log.before)) = 5
    /\ \A i \in 0..4 : log.before.syntheticLengths[i] = 1
    /\ log.before.tailReserve = 2
    /\ ret = <<0, 1>>
    /\ se.head = 2

(***************************************************************************)
(* The EncodeOffline of tokenizer.go (lines 396-516).  It is the heap      *)
(* variant line for line - pushIfMergeable, the loop over the heap and the *)
(* output walk are those of heapPushIfMergeable, heapMergeLoop and         *)
(* outputWalk - but for the loop that links the list, which runs over      *)
(* 1 <= i < n - 1 on slices that make has zeroed.                          *)
(*                                                                         *)
(* SpecLegacy runs one call: the initialisation, the seeding loop one      *)
(* iteration at a time (at most MaxSeedSteps of them), then the merge loop *)
(* and the output walk.  ar holds the call, with the loop variable i of    *)
(* the seeding loop; log holds the arena as initialised and the slots the  *)
(* seeding loop has visited.                                               *)
(***************************************************************************)
legacyInitArena(t, input) ==
    LET n == Len(input)
        linked(i) == 1 <= i /\ i < n - 1
    IN  [n      |-> n,
         tokens |-> [i \in 0..(n - 1) |-> t.byteToToken[input[i + 1]]],
         prev   |-> [i \in 0..(n - 1) |->
                        IF i = 0 THEN -1 ELSE IF linked(i) THEN i - 1 ELSE 0],
         next   |-> [i \in 0..(n - 1) |->
                        IF i = n - 1 THEN -1 ELSE IF linked(i) THEN i + 1 ELSE 0],
         live   |-> [i \in 0..(n - 1) |-> 0],
         h      |-> [items |-> << >>, preAllocated |-> FALSE, initialCapacity |-> 0]]

MaxLegacyInputLen == 3
MaxSeedSteps == 3

InitLegacy ==
    /\ tok \in LoadedModels
    /\ pool = EmptyScratch
    /\ enc = [tailReserve |-> 0, buf |-> << >>, outBuf |-> << >>]
    /\ op = "new"
    /\ arg = << >>
    /\ ret = << >>
    /\ bufBefore = << >>
    /\ fed = << >>
    /\ emitted = << >>
    /\ IdleQueues
    /\ ar = [pc |-> "idle"]
    /\ log = << >>
    /\ conc = << >>
    /\ al = << >>
    /\ IdleStreams

\* lines 397-427: the n == 0 return, or the arena and the empty heap
LegacyStart ==
    \E input \in ByteStrings(MaxLegacyInputLen) :
        /\ ar.pc = "idle"
        /\ op' = "start"
        /\ arg' = input
        /\ IF input = << >>
             THEN /\ ar' = [pc |-> "done", input |-> input, st |-> << >>, i |-> -1]
                  /\ ret' = << >>
                  /\ log' = [init |-> << >>, visited |-> << >>]
             ELSE LET st == legacyInitArena(tok, input) IN
                  /\ ar' = [pc |-> "seed", input |-> input, st |-> st, i |-> 0]
                  /\ ret' = ret
                  /\ log' = [init |-> st, visited |-> << >>]
        /\ UNCHANGED <<tok, pool, enc, bufBefore, fed, emitted, bq, mh, conc, al, est, se>>

\* lines 449-451: one iteration of for i := 0; i != -1 && next[i] != -1;
\* i = next[i]
LegacySeedStep ==
    /\ ar.pc = "seed"
    /\ ar.i # -1 /\ ar.st.next[ar.i] # -1
    /\ Len(log.visited) < MaxSeedSteps
    /\ ar' = [ar EXCEPT !.st = heapPushIfMergeable(tok, ar.st, ar.i),
                        !.i  = ar.st.next[ar.i]]
    /\ log' = [log EXCEPT !.visited = Append(@, ar.i)]
    /\ op' = "seed"
    /\ UNCHANGED <<tok, pool, enc, arg, ret, bufBefore, fed, emitted, bq, mh, conc, al, est, se>>

\* lines 453-515, once the seeding loop has ended: the loop over the heap
\* and the output walk from head = 0
LegacyFinish ==
    /\ ar.pc = "seed"
    /\ ~(ar.i # -1 /\ ar.st.next[ar.i] # -1)
    /\ LET st == heapMergeLoop(tok, ar.st) IN
        /\ ar' = [ar EXCEPT !.pc = "done", !.st = st]
        /\ ret' = outputWalk(st, 0)
    /\ op' = "finish"
    /\ UNCHANGED <<tok, pool, enc, arg, bufBefore, fed, emitted, bq, mh, log, conc, al, est, se>>

NextLegacy == LegacyStart \/ LegacySeedStep \/ LegacyFinish

SpecLegacy == InitLegacy /\ [][NextLegacy]_vars

\* C31: in the EncodeOffline of tokenizer.go the arena of an input of
\* length n >= 1 is linked head to tail after initialisation (next[i] = i + 1
\* for i < n - 1, prev[i] = i - 1 for i > 0, prev[0] = next[n-1] = -1), so
\* the seeding walk from slot 0 visits no slot twice and the call ends
\* - for the two-byte input of a single merge too.
C31_ArenaLinkedSeedingEnds ==
    ar.pc \in {"seed", "done"} /\ ar.input # << >> =>
        LET n == Len(ar.input) IN
        /\ \A i \in 0..(n - 1) :
               /\ log.init.next[i] = (IF i = n - 1 THEN -1 ELSE i + 1)
               /\ log.init.prev[i] = (IF i = 0 THEN -1 ELSE i - 1)
        /\ \A j \in DOMAIN log.visited, k \in DOMAIN log.visited :
               j # k => log.visited[j] # log.visited[k]

\* the tokens of the live list, in list order
liveTokens(st) == [k \in 1..Len(liveSlots(st)) |-> st.tokens[liveSlots(st)[k]]]

\* C32: byte conservation in EncodeOffline.  At every point of the merge
\* loop the bytes of the tokens of the live list, walked from slot 0 along
\* next and concatenated, are the input bytes, and the live list has
\* n - (merges executed so far) nodes; the tokens returned decode to the
\* input.
C32_BytesConserved ==
    ar.pc \in {"loop", "walk", "done"} =>
        /\ concatTokens(tok, liveTokens(ar.st)) = ar.input
        /\ Len(liveSlots(ar.st)) = ar.st.n - log.merges
        /\ (ar.pc = "done" => concatTokens(tok, ar.out) = ar.input)

\* inside the merge loop of the core encoder, after a second merge that
\* built a token of three bytes
C32_Witness ==
    /\ ar.pc = "loop" /\ ar.impl = "bucket"
    /\ log.last.kind = "merge"
    /\ log.merges >= 2
    /\ \E k \in 1..Len(liveTokens(ar.st)) : TokenLen(tok, liveTokens(ar.st)[k]) >= 3
    /\ Len(liveSlots(ar.st)) >= 2

\* C33: list well-formedness in EncodeOffline.  At every point of the merge
\* loop prev and next are inverse to each other on the live slots (next[i] =
\* j >= 0 implies prev[j] = i, prev[j] = i >= 0 implies next[i] = j), next
\* leads from a live slot to a live slot of a higher index (no cycle), slot 0
\* is never retired and has prev[0] = -1, and the walk from slot 0 along next
\* - the output walk - visits every live slot.
C33_ListWellFormed ==
    ar.pc \in {"loop", "walk", "done"} =>
        LET live == slotsOf(ar.st.n) \ log.absorbed
            walk == liveSlots(ar.st)
        IN  /\ \A i \in live :
                   /\ ar.st.next[i] >= 0 =>
                          /\ ar.st.next[i] \in live
                          /\ ar.st.next[i] > i
                          /\ ar.st.prev[ar.st.next[i]] = i
                   /\ ar.st.prev[i] >= 0 =>
                          /\ ar.st.prev[i] \in live
                          /\ ar.st.next[ar.st.prev[i]] = i
            /\ 0 \in live
            /\ ar.st.prev[0] = -1
            /\ { walk[k] : k \in DOMAIN walk } = live
            /\ \A k \in 1..(Len(walk) - 1) : walk[k] < walk[k + 1]
            /\ (ar.pc = "done" => ar.walked = walk)

\* the core encoder has just merged a pair that had a right neighbour, whose
\* prev now is the slot merged into, and a left neighbour
C33_Witness ==
    /\ ar.pc = "loop" /\ ar.impl = "bucket"
    /\ log.last.kind = "merge"
    /\ ar.st.next[log.last.i] >= 0
    /\ ar.st.next[log.last.i] > log.last.j
    /\ ar.st.prev[log.last.i] >= 0

\* C34: the version checks of EncodeOffline are free of ABA although a
\* candidate stores its left slot only.  When a popped candidate c passes
\* liveVersion[Pos] == VerL and liveVersion[next[Pos]] == VerR, next[Pos] is
\* the slot that was the right neighbour of Pos when c was pushed, and both
\* slots hold the tokens they held then (LeftToken and RightToken of c); the
\* version of a slot never decreases.
C34_VersionChecksNoABA ==
    ar.pc \in {"loop", "walk", "done"} =>
        LET c    == log.last.c
            list == log.before.list
            j    == list.next[c.Pos]
        IN  /\ (/\ log.last.kind \in {"merge", "skip"}
                /\ j # -1
                /\ list.live[c.Pos] = c.VerL
                /\ list.live[j] = c.VerR
                =>  /\ \E rec \in log.pushedAt : rec.c = c
                    /\ \A rec \in log.pushedAt : rec.c = c => rec.j = j
                    /\ list.tokens[c.Pos] = c.LeftToken
                    /\ list.tokens[j] = c.RightToken)
            /\ \A s \in slotsOf(ar.st.n) : ar.st.live[s] >= list.live[s]

\* the core encoder has popped a candidate it did not merge on, and has now
\* merged on a candidate that a merge had pushed (a version above 0)
C34_Witness ==
    /\ ar.pc = "loop" /\ ar.impl = "bucket"
    /\ log.last.kind = "merge"
    /\ log.last.c.VerL + log.last.c.VerR > 0
    /\ log.pops > log.merges

\* the left slots of the adjacent live pairs of st whose tokens the merge
\* table pairs
mergeableSlots(t, st) ==
    { i \in { liveSlots(st)[k] : k \in DOMAIN liveSlots(st) } :
        /\ st.next[i] # -1
        /\ <<st.tokens[i], st.tokens[st.next[i]]>> \in DOMAIN t.pairRank }

\* C35: candidate completeness in EncodeOffline.  At the top of every
\* iteration of the merge loop the queue holds, for every pair of adjacent
\* live slots (i, next[i]) whose tokens are in the merge table, a candidate
\* with Pos = i, the rank of that pair and the current versions of the two
\* slots.
C35_CandidatesComplete ==
    ar.pc = "loop" =>
        \A i \in mergeableSlots(tok, ar.st) :
            LET j == ar.st.next[i] IN
            \E c \in candsIn(ar.st.h) :
                /\ c.Pos = i
                /\ c.Rank = tok.pairRank[<<ar.st.tokens[i], ar.st.tokens[j]>>]
                /\ c.VerL = ar.st.live[i]
                /\ c.VerR = ar.st.live[j]

\* the core encoder is at the top of an iteration after a merge whose
\* merged token is a pair of the table with its left neighbour
C35_Witness ==
    /\ ar.pc = "loop" /\ ar.impl = "bucket"
    /\ log.last.kind = "merge"
    /\ log.last.i > 0
    /\ ar.st.prev[log.last.i] \in mergeableSlots(tok, ar.st)

\* the merge table of t is in training order: no token is produced by two
\* merges, and a merge is ranked above the merges that produce its two
\* tokens
trainingOrder(t) ==
    /\ \A p \in DOMAIN t.pairToken, q \in DOMAIN t.pairToken :
           t.pairToken[p] = t.pairToken[q] => p = q
    /\ \A p \in DOMAIN t.pairRank, q \in DOMAIN t.pairRank :
           t.pairToken[q] \in {p[1], p[2]} => t.pairRank[q] < t.pairRank[p]

\* C36: when the merge table is in training order, at no point of the core
\* EncodeOffline does a bucket below the cursor of the BucketQueue hold a
\* candidate (Pop passes over empty buckets only, so none was pushed below
\* the cursor), and the call returns the tokens the heap variant returns.
C36_TrainingOrderBucketIsHeap ==
    ar.pc \in {"loop", "walk", "done"} /\ ar.impl = "bucket" /\ trainingOrder(tok) =>
        /\ \A r \in DOMAIN ar.st.h.buckets :
               r - 1 < ar.st.h.current => ar.st.h.buckets[r] = << >>
        /\ (ar.pc = "done" => ar.out = EncodeOfflineHeap(tok, ar.input))

\* a finished call of the core encoder under a table in training order
\* whose second merge was ranked above the first and used its token
C36_Witness ==
    /\ ar.pc = "done" /\ ar.impl = "bucket"
    /\ trainingOrder(tok)
    /\ log.merges >= 2
    /\ ar.st.h.current >= 1
    /\ \E k \in DOMAIN ar.out : TokenLen(tok, ar.out[k]) >= 3

\* C37: the BucketQueue keeps Len and Pop consistent after any sequence of
\* Push and Pop calls: Len() is the number of candidates pushed and not yet
\* popped (the candidates its buckets hold), and Pop returns false only when
\* Len() is 0.
C37_BucketLenPopConsistent ==
    /\ BucketQueueLen(bq) = Cardinality({ <<r, k>> \in (DOMAIN bq.buckets) \X (1..MaxQueueLen) :
                                             k <= Len(bq.buckets[r]) })
    /\ (op = "qpop" /\ ~ret[1].ok => BucketQueueLen(bq) = 0)

\* what the Push just made encoded: the buffer it found plus its chunk
pushedBuffer == bufBefore \o arg

\* C38: for the buffering streaming encoder, after every Push the number of
\* buffered bytes is strictly less than tailReserve + MaxTokenByteLen, that
\* is at most 2 * MaxTokenByteLen - 2; and the buffer exceeds tailReserve
\* only because of the first unemitted token: without the bytes of that
\* token, which crosses the emit limit, fewer than tailReserve bytes remain.
C38_BufferBelowReservePlusToken ==
    op = "push" =>
        /\ Len(enc.buf) < enc.tailReserve + tok.MaxTokenByteLen
        /\ enc.tailReserve + tok.MaxTokenByteLen - 1 <= 2 * tok.MaxTokenByteLen - 2
        /\ Len(enc.buf) > enc.tailReserve =>
               LET out == EncodeOffline(tok, pushedBuffer, EmptyScratch) IN
               /\ IsPrefix(ret, out)
               /\ Len(ret) < Len(out)
               /\ Len(enc.buf) - TokenLen(tok, out[Len(ret) + 1]) < enc.tailReserve

\* a Push that emits tokens and then stops at a token of three bytes, which
\* keeps the buffer above the reserve
C38_Witness ==
    /\ op = "push"
    /\ ret # << >>
    /\ Len(enc.buf) > enc.tailReserve
    /\ LET out == EncodeOffline(tok, pushedBuffer, EmptyScratch) IN
       /\ Len(ret) < Len(out)
       /\ TokenLen(tok, out[Len(ret) + 1]) = 3

\* C39: for the buffering streaming encoder, a Push with an empty chunk,
\* after any sequence of Push calls, returns no tokens and leaves the
\* buffered bytes unchanged, although it runs the offline merger again on
\* the buffer that remained.
C39_EmptyPushChangesNothing ==
    op = "push" /\ arg = << >> => ret = << >> /\ enc.buf = bufBefore

\* an empty Push that found more than the reserve buffered, so that it ran
\* the merger again, on a stream that has emitted tokens already
C39_Witness ==
    /\ op = "push" /\ arg = << >>
    /\ Len(bufBefore) > enc.tailReserve
    /\ emitted # << >>
    /\ Len(EncodeOffline(tok, bufBefore, EmptyScratch)) >= 2

\* the encoding of the call's implementation
encodeAs(impl, input) ==
    IF impl = "bucket" THEN EncodeOffline(tok, input, EmptyScratch)
                       ELSE EncodeOfflineHeap(tok, input)

\* the encoding of input is the encodings of its two parts at every byte
\* offset where a prefix of its tokens ends
splitsAtTokenBoundaries(impl, input, out) ==
    \A m \in 0..Len(out) :
        LET k == byteLenOf(tok, SubSeq(out, 1, m)) IN
        out = encodeAs(impl, Slice(input, 0, k))
                \o encodeAs(impl, Slice(input, k, Len(input)))

\* C40: offline encoding splits at its own token boundaries: if k is the
\* byte length of a prefix of the tokens of EncodeOffline(S), then
\* EncodeOffline(S) = EncodeOffline(S[0:k]) ++ EncodeOffline(S[k:]).  For
\* the heap variant, and for the core encoder, which is the one the
\* buffering streaming encoder re-encodes its remainder with.
C40_SplitsAtTokenBoundaries ==
    ar.pc = "done" => splitsAtTokenBoundaries(ar.impl, ar.input, ar.out)

\* a call of the heap variant whose output has a boundary with a merged
\* token on either side of it
C40_Witness ==
    /\ ar.pc = "done" /\ ar.impl = "heap"
    /\ log.merges >= 2
    /\ \E m \in 1..(Len(ar.out) - 1) :
           /\ TokenLen(tok, ar.out[m]) >= 2
           /\ TokenLen(tok, ar.out[m + 1]) >= 2

====
